---- MODULE Spec2Model ----
(***************************************************************************)
(* Smart AI Router (src/ai_router.py): provider registry, weighted         *)
(* provider selection, the two streaming transports, the API-key / quota   *)
(* gate and the chat-completion request handler.                           *)
(*                                                                         *)
(* Quantities: response times are kept in tenths of a second.  Upstream    *)
(* byte chunks are the units the httpx iterator yields, written as small   *)
(* positive integers (0 is the empty chunk).                               *)
(***************************************************************************)
EXTENDS Integers, Sequences, FiniteSets, TLC

VARIABLES
    \* ---- provider registry (AIProvider live state, per provider name)
    status, error_count, response_time,
    \* ---- one select_provider call
    reqModel, selected,
    \* ---- one streaming forward (stream_generator or LowLevelASGIStreamer)
    transport,              \* "generator" or "asgi"
    upstream,               \* what the provider does for this call
    spc,                    \* where the streaming coroutine is
    pos,                    \* upstream chunks consumed so far
    sent,                   \* messages delivered to the caller, in order
    client,                 \* the dedicated httpx.AsyncClient: none, open, closed
    connected,              \* the caller is still connected
    is_headers_sent,        \* LowLevelASGIStreamer.is_headers_sent
    streamer_error_count,   \* LowLevelASGIStreamer.error_count
    reads_after_disconnect, \* reads begun after a send to a caller that left
    \* ---- API keys, users and the clock
    auth_mode,              \* "shared" or "multi_user"
    users,                  \* users_db: API key -> UserInfo
    today,                  \* datetime.now().date(), as a day number
    \* ---- router statistics
    stats,
    \* ---- request-handling tasks (chat_completions, chat_completions_asgi)
    pc,                     \* where each task is
    req,                    \* the request a task serves
    user_info,              \* the UserInfo authenticate returned to it
    provider,               \* the provider it selected
    response,               \* the response it gave
    selections,             \* history: the results of its select_provider calls
    attempts,               \* history: the providers it sent the request to
    request_data,           \* history: the model field of each request sent upstream
    outcomes,               \* history: how each of its forwards ended
    user_updates,           \* history: its update_user_stats calls
    started,                \* history: requests received so far
    admissions,             \* history: per users_db key, authorizations granted
    \* ---- health monitor
    health_check_task,      \* SmartAIRouter.health_check_task: None or the loop task
    hpc,                    \* where the health_check_loop task is
    probe,                  \* per provider, its health_check_provider call in the
                            \* cycle: idle, pending, or what it returned
    last_check,             \* AIProvider.last_check
    now,                    \* time.time()
    loop_tasks,             \* history: health_check_loop tasks created
    starts,                 \* history: start_health_checks calls
    \* ---- GET /health
    health_get              \* the last GET /health: the credential it came with
                            \* and the response it got

regVars == <<status, error_count, response_time>>
selVars == <<reqModel, selected>>
streamVars == <<transport, upstream, spc, pos, sent, client, connected,
                is_headers_sent, streamer_error_count, reads_after_disconnect>>
authVars == <<auth_mode, users, today>>
taskVars == <<pc, req, user_info, provider, response, selections, attempts,
              request_data, outcomes,
              user_updates, started, admissions>>
pipeVars == <<auth_mode, users, today, stats, pc, req, user_info, provider,
              response, selections, attempts, request_data, outcomes, user_updates,
              started, admissions>>
healthVars == <<health_check_task, hpc, probe, last_check, now, loop_tasks, starts,
                health_get>>
vars == <<status, error_count, response_time, reqModel, selected,
          transport, upstream, spc, pos, sent, client, connected,
          is_headers_sent, streamer_error_count, reads_after_disconnect,
          auth_mode, users, today, stats, pc, req, user_info, provider,
          response, selections, attempts, request_data, outcomes, user_updates,
          started, admissions,
          health_check_task, hpc, probe, last_check, now, loop_tasks, starts,
          health_get>>

\* ------------------------------------------------------------------ bounds
\* Largest error_count drawn for a registry state (the ceiling 5 is inside).
MaxErr == 5

\* ------------------------------------------------------- static configuration
\* SmartAIRouter.__init__: the provider list, in list order.
ProviderNames == <<"deepseek", "lingyiwanwu", "ollama">>

models ==
    [deepseek    |-> <<"deepseek-chat", "deepseek-coder">>,
     lingyiwanwu |-> <<"yi-34b-chat", "yi-6b-chat">>,
     ollama      |-> <<"llama3.2", "qwen2:7b", "codegemma">>]

weight == [deepseek |-> 3, lingyiwanwu |-> 3, ollama |-> 2]

\* ProviderStatus
ProviderStatus == {"healthy", "unhealthy", "unknown"}

\* The value select_provider returns when it finds nobody (Python None).
None == "None"

\* The error_count ceiling of the health filter.
ErrorCeiling == 5

Range(s) == {s[i] : i \in DOMAIN s}

MaxOf(a, b) == IF a >= b THEN a ELSE b

\* Requested model ids: a native id of each provider, a generic alias and an
\* id nobody lists.
ReqModels == {"deepseek-chat", "yi-34b-chat", "codegemma", "gpt-4", "no-such-model"}

\* ------------------------------------------------------------ select_provider
\* Step 1, the list comprehension: healthy and error_count < 5.
healthy_filter_status_only(provs) ==
    SelectSeq(provs, LAMBDA p : status[p] = "healthy")

healthy_filter(provs) ==
    SelectSeq(provs, LAMBDA p : status[p] = "healthy" /\ error_count[p] < ErrorCeiling)

\* Step 1 with its fallback: an empty filter result is replaced by all providers.
healthy_providers_no_fallback(provs) == healthy_filter(provs)

healthy_providers(provs) ==
    IF healthy_filter(provs) = <<>> THEN provs ELSE healthy_filter(provs)

\* Step 2: providers listing the requested model, or all candidates if none does.
model_compatible_providers_hard(provs, m) ==
    SelectSeq(healthy_providers(provs), LAMBDA p : m \in Range(models[p]))

model_compatible_providers(provs, m) ==
    LET compat == SelectSeq(healthy_providers(provs), LAMBDA p : m \in Range(models[p]))
    IN  IF compat = <<>> THEN healthy_providers(provs) ELSE compat

\* Step 3, per provider: int(weight * time_factor * error_factor), at least 1.
\* time_factor = max(0.1, 2.0 - response_time) is applied only when
\* response_time > 0; error_factor = max(0.1, 1.0 - 0.1 * error_count).
\* Both factors are in tenths, the product in hundredths; int() truncates.
pool_copies_unfloored(p) ==
    LET time_factor  == IF response_time[p] > 0 THEN MaxOf(1, 20 - response_time[p]) ELSE 10
        error_factor == MaxOf(1, 10 - error_count[p])
    IN  (weight[p] * time_factor * error_factor) \div 100

pool_copies_rounded(p) ==
    LET time_factor  == IF response_time[p] > 0 THEN MaxOf(1, 20 - response_time[p]) ELSE 10
        error_factor == MaxOf(1, 10 - error_count[p])
    IN  MaxOf(1, (weight[p] * time_factor * error_factor + 50) \div 100)

pool_copies(p) ==
    LET time_factor  == IF response_time[p] > 0 THEN MaxOf(1, 20 - response_time[p]) ELSE 10
        error_factor == MaxOf(1, 10 - error_count[p])
    IN  MaxOf(1, (weight[p] * time_factor * error_factor) \div 100)

Repeat(x, n) == [i \in 1..n |-> x]

RECURSIVE extend_pool(_)
extend_pool(cands) ==
    IF cands = <<>> THEN <<>>
    ELSE Repeat(Head(cands), pool_copies(Head(cands))) \o extend_pool(Tail(cands))

weighted_providers_unweighted(provs, m) == model_compatible_providers(provs, m)

weighted_providers(provs, m) == extend_pool(model_compatible_providers(provs, m))

\* The providers random.choice can return; {None} when there is no candidate.
select_provider(provs, m) ==
    IF model_compatible_providers(provs, m) # <<>>
    THEN Range(weighted_providers(provs, m))
    ELSE {None}

\* ------------------------------------------------------------ map_model_name
\* The mapping table of generic model names (the same literal in
\* SmartAIRouter.map_model_name and LowLevelASGIStreamer.map_model_name).
model_mapping_foreign_id ==
    ( "gpt-3.5-turbo" :>
          [deepseek |-> "deepseek-chat", lingyiwanwu |-> "yi-34b-chat",
           ollama |-> "llama3.2"] )
    @@ ( "gpt-4" :>
          [deepseek |-> "deepseek-chat", lingyiwanwu |-> "yi-34b-chat",
           ollama |-> "llama3.2"] )
    @@ ( "code-assistant" :>
          [deepseek |-> "deepseek-coder", lingyiwanwu |-> "yi-34b-chat",
           ollama |-> "deepseek-coder"] )

model_mapping ==
    ( "gpt-3.5-turbo" :>
          [deepseek |-> "deepseek-chat", lingyiwanwu |-> "yi-34b-chat",
           ollama |-> "llama3.2"] )
    @@ ( "gpt-4" :>
          [deepseek |-> "deepseek-chat", lingyiwanwu |-> "yi-34b-chat",
           ollama |-> "llama3.2"] )
    @@ ( "code-assistant" :>
          [deepseek |-> "deepseek-coder", lingyiwanwu |-> "yi-34b-chat",
           ollama |-> "codegemma"] )

\* dict.get(provider.name, provider.models[0])
mapping_get(entry, p) == IF p \in DOMAIN entry THEN entry[p] ELSE models[p][1]

\* SmartAIRouter.map_model_name
map_model_name_no_default(requested_model, p) ==
    IF requested_model \in DOMAIN model_mapping
    THEN mapping_get(model_mapping[requested_model], p)
    ELSE requested_model

map_model_name(requested_model, p) ==
    IF requested_model \in DOMAIN model_mapping
    THEN mapping_get(model_mapping[requested_model], p)
    ELSE IF requested_model \in Range(models[p])
    THEN requested_model
    ELSE models[p][1]

\* LowLevelASGIStreamer.map_model_name
asgi_map_model_name(requested_model, p) ==
    IF requested_model \in DOMAIN model_mapping
    THEN mapping_get(model_mapping[requested_model], p)
    ELSE IF requested_model \in Range(models[p])
    THEN requested_model
    ELSE models[p][1]

\* request_data = request.model_dump(); request_data["model"] = actual_model
\* (forward_request, and LowLevelASGIStreamer.stream_response).
request_data_model_unmapped(requested_model, p) == requested_model

request_data_model(requested_model, p) == map_model_name(requested_model, p)

asgi_request_data_model(requested_model, p) == asgi_map_model_name(requested_model, p)

\* ------------------------------------------------- users, keys, requests
\* setup_authentication: the shared key and the keys of users_db.
shared_api_key == "sk-8d6804b011614dba7bd065f8644514b"
DemoKey  == "sk-user-demo-key-001"
AdminKey == "sk-user-admin-key-999"
UserKeys == {DemoKey, AdminKey}

\* The credentials a caller may present: the configured ones and a wrong one.
Keys == UserKeys \cup {shared_api_key, "sk-wrong"}

\* daily_limit of the two users of users_db (500 and 10000 in the source),
\* scaled down so that the limit is reached within the bounds.
DemoDailyLimit == 1
AdminDailyLimit == 2

\* daily_limit of the UserInfo made for the shared key.
SharedDailyLimit == 999999

\* Requests received in one behaviour, and the last day of the clock.
MaxRequests == 2
MaxDay == 1

\* The request-handling tasks.
Tasks == {1}

\* UserInfo as the dataclass creates it on day d.
UserInfo(limit, d, active) ==
    [daily_limit |-> limit, requests_today |-> 0, total_requests |-> 0,
     last_request |-> d, is_active |-> active]

\* What authenticate hands to the handler: nothing, a record of users_db
\* (by reference), or a UserInfo object made for this call.
NoUser == [kind |-> "none", key |-> "", rec |-> UserInfo(0, 0, FALSE)]

\* Request bodies: not JSON, JSON without messages, or a valid body with its
\* stream field (possibly absent) and x_use_asgi_streaming field.
RequestBodies ==
    {[valid |-> FALSE, why |-> w, stream |-> "absent", x_use_asgi_streaming |-> FALSE]
        : w \in {"bad_json", "no_messages"}}
    \cup
    [valid : {TRUE}, why : {""}, stream : {"absent", "true", "false"},
     x_use_asgi_streaming : BOOLEAN]

Endpoints == {"/v1/chat/completions", "/v1/chat/completions/asgi"}

NoRequest == [key |-> "", endpoint |-> "", body |-> CHOOSE b \in RequestBodies : ~b.valid,
              header |-> FALSE, model |-> ""]

NoResponse == [code |-> 0, detail |-> ""]

NoStats == [total_requests |-> 0, successful_requests |-> 0, failed_requests |-> 0,
            provider_usage |-> [p \in Range(ProviderNames) |-> 0]]

\* No request handling exists (the value of the request-handling variables
\* in the specifications that are not about it).
NoTasks ==
    /\ auth_mode = "shared"
    /\ users = [k \in UserKeys |->
                   UserInfo(IF k = DemoKey THEN DemoDailyLimit ELSE AdminDailyLimit,
                            0, TRUE)]
    /\ today = 0
    /\ stats = NoStats
    /\ pc = [r \in Tasks |-> "idle"]
    /\ req = [r \in Tasks |-> NoRequest]
    /\ user_info = [r \in Tasks |-> NoUser]
    /\ provider = [r \in Tasks |-> None]
    /\ response = [r \in Tasks |-> NoResponse]
    /\ selections = [r \in Tasks |-> <<>>]
    /\ attempts = [r \in Tasks |-> <<>>]
    /\ request_data = [r \in Tasks |-> <<>>]
    /\ outcomes = [r \in Tasks |-> <<>>]
    /\ user_updates = [r \in Tasks |-> 0]
    /\ started = 0
    /\ admissions = [k \in UserKeys |-> 0]

\* The health monitor has not been started (the state the constructor
\* leaves, and the value of the monitor's variables in the specifications
\* that are not about it).
\* No GET /health has been made.
NoHealthGet ==
    [credentials |-> None, code |-> 0, status |-> "",
     providers |-> [p \in Range(ProviderNames) |->
                       [status |-> "", response_time |-> 0, error_count |-> 0,
                        last_check |-> 0]],
     stats |-> NoStats, auth_mode |-> ""]

NoHealth ==
    /\ health_check_task = None
    /\ hpc = "none"
    /\ probe = [p \in Range(ProviderNames) |-> "idle"]
    /\ last_check = [p \in Range(ProviderNames) |-> 0]
    /\ now = 0
    /\ loop_tasks = 0
    /\ starts = 0
    /\ health_get = NoHealthGet

\* No streaming call exists (the value of the streaming variables in the
\* specifications that are not about streaming).
NoUpstream == [connect |-> "ok", code |-> 200, encoding |-> "identity",
               chunks |-> <<>>, tail |-> "eof"]

NoStream ==
    /\ transport = "none"
    /\ upstream = NoUpstream
    /\ spc = "none"
    /\ pos = 0
    /\ sent = <<>>
    /\ client = "none"
    /\ connected = TRUE
    /\ is_headers_sent = FALSE
    /\ streamer_error_count = 0
    /\ reads_after_disconnect = 0

\* ================================================================ SpecSel
\* select_provider applied to every registry state within the bounds.
NotCalled == "not-called"

InitSel ==
    /\ status \in [Range(ProviderNames) -> ProviderStatus]
    /\ error_count \in [Range(ProviderNames) -> 0..MaxErr]
    /\ response_time = [p \in Range(ProviderNames) |-> 0]
    /\ reqModel \in ReqModels
    /\ selected = NotCalled
    /\ NoStream
    /\ NoTasks
    /\ NoHealth

SelectProviderCall ==
    /\ selected' \in select_provider(ProviderNames, reqModel)
    /\ UNCHANGED <<status, error_count, response_time, reqModel>>
    /\ UNCHANGED streamVars
    /\ UNCHANGED <<pipeVars, healthVars>>

NextSel == SelectProviderCall

SpecSel == InitSel /\ [][NextSel]_vars

\* ================================================================= SpecMap
\* map_model_name applied, by either of its two copies, to every pair of a
\* requested model and a provider; the values the calls return are kept in
\* request_data.
MaxMapCalls == 2

\* Requested model names: the generic names, every provider's own models,
\* a name nobody knows and the empty name.
MapModels ==
    DOMAIN model_mapping
    \cup UNION {Range(models[p]) : p \in Range(ProviderNames)}
    \cup {"no-such-model", ""}

InitMap ==
    /\ status = [p \in Range(ProviderNames) |-> "unknown"]
    /\ error_count = [p \in Range(ProviderNames) |-> 0]
    /\ response_time = [p \in Range(ProviderNames) |-> 0]
    /\ reqModel \in MapModels
    /\ selected \in Range(ProviderNames)
    /\ NoStream
    /\ NoTasks
    /\ NoHealth

MapModelNameCall(r) ==
    /\ Len(request_data[r]) < MaxMapCalls
    /\ request_data' = [request_data EXCEPT
                           ![r] = Append(@, map_model_name(reqModel, selected))]
    /\ UNCHANGED <<regVars, selVars, streamVars, healthVars, authVars, stats, pc, req,
                   user_info, provider, response, selections, attempts, outcomes,
                   user_updates, started, admissions>>

AsgiMapModelNameCall(r) ==
    /\ Len(request_data[r]) < MaxMapCalls
    /\ request_data' = [request_data EXCEPT
                           ![r] = Append(@, asgi_map_model_name(reqModel, selected))]
    /\ UNCHANGED <<regVars, selVars, streamVars, healthVars, authVars, stats, pc, req,
                   user_info, provider, response, selections, attempts, outcomes,
                   user_updates, started, admissions>>

NextMap ==
    \/ \E r \in Tasks : MapModelNameCall(r)
    \/ \E r \in Tasks : AsgiMapModelNameCall(r)

SpecMap == InitMap /\ [][NextMap]_vars

\* ================================================================ SpecPool
\* select_provider applied to registries with measured response times and
\* with error counts past the floor of the error factor.
MaxPoolErr == 9

\* provider.response_time, in tenths of a second: 0 before any measurement,
\* half a second, and beyond the two seconds at which the time factor floors.
RespTimes == {0, 5, 25}

InitPool ==
    /\ status \in [Range(ProviderNames) -> {"healthy", "unhealthy"}]
    /\ error_count \in [Range(ProviderNames) -> 0..MaxPoolErr]
    /\ response_time \in [Range(ProviderNames) -> RespTimes]
    /\ reqModel \in {"gpt-4", "codegemma"}
    /\ selected = NotCalled
    /\ NoStream
    /\ NoTasks
    /\ NoHealth

SpecPool == InitPool /\ [][NextSel]_vars

\* ============================================================== SpecStream
\* One streaming forward to the selected provider over one of the two
\* transports, against every upstream behaviour within the bounds.

\* Longest upstream chunk sequence, and the number of distinct non-empty chunks.
MaxChunks == 2
NWire == 2

\* Largest error_count the chosen provider starts a streaming call with.
MaxStreamErr == 1

\* Measured connection time of the call (tenths of a second).
ConnTimes == {4}

\* Upstream status codes: 200 and two error statuses.
UpstreamCodes == {200, 429, 500}

SeqsUpTo(S, n) == UNION {[1..k -> S] : k \in 0..n}

\* What the provider does: the connection fails (ConnectError, a timeout or
\* another exception), or it answers with a status code; a 200 answer carries
\* a Content-Encoding, a chunk sequence and the way the body ends.
UpstreamBehaviours ==
    {[connect |-> k, code |-> 200, encoding |-> "identity", chunks |-> <<>>, tail |-> "eof"]
        : k \in {"connect_error", "timeout", "error"}}
    \cup
    {[connect |-> "ok", code |-> c, encoding |-> "identity", chunks |-> <<>>, tail |-> "eof"]
        : c \in UpstreamCodes \ {200}}
    \cup
    [connect : {"ok"}, code : {200}, encoding : {"identity", "gzip"},
     chunks : SeqsUpTo(0..NWire, MaxChunks), tail : {"eof", "timeout", "error"}]

\* response.aiter_raw yields the bytes as they are on the wire.
aiter_raw(enc, c) == c

\* response.aiter_bytes yields the bytes with the Content-Encoding removed:
\* a decoded chunk of an encoded body is other bytes than the wire chunk.
aiter_bytes(enc, c) == IF enc = "identity" \/ c = 0 THEN c ELSE c + 10

\* ---- messages to the caller (ASGI events)
NoError == [type |-> "", code |-> 0, fields |-> {}]

Msg(type, st, body, more, err) ==
    [type |-> type, status |-> st, body |-> body, more_body |-> more, error |-> err]

StartMsg(st) == Msg("http.response.start", st, 0, TRUE, NoError)
BodyMsg(c)   == Msg("http.response.body", 0, c, TRUE, NoError)
\* body b'' with more_body False
EndMsg       == Msg("http.response.body", 0, 0, FALSE, NoError)
\* a 'data: {"error": {...}}' event; its body is written -1
ErrorMsg(more, err) == Msg("http.response.body", 0, -1, more, err)

\* The exception kinds and the error type each except clause reports.
error_type(k) ==
    CASE k = "connect_error" -> "connection_error"
      [] k = "timeout"       -> "timeout_error"
      [] OTHER               -> "stream_error"

\* provider.error_count = max(0, provider.error_count - 1)
record_success_unfloored(p) == [error_count EXCEPT ![p] = @ - 1]

record_success(p) == [error_count EXCEPT ![p] = MaxOf(0, @ - 1)]

\* provider.error_count += 1
record_failure(p) == [error_count EXCEPT ![p] = @ + 1]

\* provider.response_time = (provider.response_time + t) / 2
smoothed(old, t) == (old + t) \div 2

\* A send reaches the caller only while the caller is connected.
Deliver(msgs) == IF connected THEN sent \o msgs ELSE sent

\* send() to a caller that has gone either returns silently or raises,
\* depending on the server.
SendRaises == IF connected THEN {FALSE} ELSE BOOLEAN

InitStream ==
    /\ transport \in {"generator", "asgi"}
    /\ upstream \in UpstreamBehaviours
    /\ selected \in Range(ProviderNames)
    /\ reqModel = "gpt-4"
    /\ status = [p \in Range(ProviderNames) |-> "unknown"]
    /\ \E e \in 0..MaxStreamErr :
           error_count = [p \in Range(ProviderNames) |-> IF p = selected THEN e ELSE 0]
    /\ response_time = [p \in Range(ProviderNames) |-> 0]
    /\ spc = "created"
    /\ pos = 0
    /\ sent = <<>>
    /\ client = "none"
    /\ connected = TRUE
    /\ is_headers_sent = FALSE
    /\ streamer_error_count = 0
    /\ reads_after_disconnect = 0
    /\ NoTasks
    /\ NoHealth

\* ---- buffered-generator transport: stream_generator, iterated by the
\* StreamingResponse that chat_completions returns.

\* The events stream_generator yields for a non-200 answer.
gen_non200_events(code) ==
    <<ErrorMsg(TRUE, [type |-> "provider_error", code |-> code,
                      fields |-> {"type", "code", "message", "provider"}])>>

\* The events an except clause of stream_generator yields.
gen_except_events_none(k) == <<>>

gen_except_events(k) ==
    <<ErrorMsg(TRUE, [type |-> error_type(k), code |-> 0,
                      fields |-> {"type", "message", "provider"}])>>

\* StreamingResponse starts the response and the first iteration runs
\* stream_generator up to the upstream connection: the client is created.
GenStart ==
    /\ transport = "generator" /\ spc = "created"
    /\ sent' = Deliver(<<StartMsg(200)>>)
    /\ client' = "open"
    /\ spc' = "connecting"
    /\ UNCHANGED <<regVars, selVars, transport, upstream, pos, connected,
                   is_headers_sent, streamer_error_count, reads_after_disconnect>>
    /\ UNCHANGED <<pipeVars, healthVars>>

\* client.stream(...) is entered: the connection fails, or the status arrives.
GenConnect ==
    /\ transport = "generator" /\ spc = "connecting"
    /\ IF upstream.connect = "ok"
       THEN /\ \E t \in ConnTimes :
                   response_time' = [response_time EXCEPT
                                        ![selected] = smoothed(@, t)]
            /\ UNCHANGED error_count
            /\ IF upstream.code # 200
               THEN /\ sent' = Deliver(gen_non200_events(upstream.code))
                    /\ spc' = "finally"
               ELSE /\ sent' = sent
                    /\ spc' = "reading"
       ELSE /\ error_count' = record_failure(selected)
            /\ sent' = Deliver(gen_except_events(upstream.connect))
            /\ spc' = "finally"
            /\ UNCHANGED response_time
    /\ UNCHANGED <<status, selVars, transport, upstream, pos, client, connected,
                   is_headers_sent, streamer_error_count, reads_after_disconnect>>
    /\ UNCHANGED <<pipeVars, healthVars>>

\* One iteration of async for raw_chunk in response.aiter_raw(...): a
\* non-empty chunk is yielded, and StreamingResponse sends it.
GenChunk ==
    /\ transport = "generator" /\ spc = "reading"
    /\ pos < Len(upstream.chunks)
    /\ LET c == aiter_raw(upstream.encoding, upstream.chunks[pos + 1])
       IN  sent' = IF c # 0 THEN Deliver(<<BodyMsg(c)>>) ELSE sent
    /\ pos' = pos + 1
    /\ UNCHANGED <<regVars, selVars, transport, upstream, spc, client, connected,
                   is_headers_sent, streamer_error_count, reads_after_disconnect>>
    /\ UNCHANGED <<pipeVars, healthVars>>

\* The upstream body ends: cleanly (the error counter is decremented), or by
\* a timeout or another exception (an except clause).
GenEnd ==
    /\ transport = "generator" /\ spc = "reading"
    /\ pos = Len(upstream.chunks)
    /\ IF upstream.tail = "eof"
       THEN /\ error_count' = record_success(selected)
            /\ sent' = sent
       ELSE /\ error_count' = record_failure(selected)
            /\ sent' = Deliver(gen_except_events(upstream.tail))
    /\ spc' = "finally"
    /\ UNCHANGED <<status, response_time, selVars, transport, upstream, pos, client,
                   connected, is_headers_sent, streamer_error_count,
                   reads_after_disconnect>>
    /\ UNCHANGED <<pipeVars, healthVars>>

\* finally: await client.aclose()
GenFinally ==
    /\ transport = "generator" /\ spc = "finally"
    /\ client' = "closed"
    /\ spc' = IF connected THEN "exhausted" ELSE "done"
    /\ UNCHANGED <<regVars, selVars, transport, upstream, pos, sent, connected,
                   is_headers_sent, streamer_error_count, reads_after_disconnect>>
    /\ UNCHANGED <<pipeVars, healthVars>>

\* The generator is exhausted: StreamingResponse sends the closing body
\* message (b'', more_body False).
GenResponseEnd ==
    /\ transport = "generator" /\ spc = "exhausted"
    /\ sent' = Deliver(<<EndMsg>>)
    /\ spc' = "done"
    /\ UNCHANGED <<regVars, selVars, transport, upstream, pos, client, connected,
                   is_headers_sent, streamer_error_count, reads_after_disconnect>>
    /\ UNCHANGED <<pipeVars, healthVars>>

\* ---- direct-relay transport: LowLevelASGIStreamer.stream_response

\* The message sent for a non-200 answer.
asgi_non200_events(code) ==
    <<ErrorMsg(FALSE, [type |-> "upstream_error", code |-> code,
                       fields |-> {"type", "code", "message", "provider",
                                   "connection_id"}])>>

\* _send_error_response: the response is started with status 500 if it was
\* not started yet, then the error event is sent as the last body message.
send_error_response_repeated(kind) ==
    (IF is_headers_sent THEN <<>> ELSE <<StartMsg(500)>>)
    \o <<ErrorMsg(TRUE, [type |-> kind, code |-> 0,
                         fields |-> {"type", "message", "provider",
                                     "connection_id"}]),
         ErrorMsg(FALSE, [type |-> kind, code |-> 0,
                          fields |-> {"type", "message", "provider",
                                      "connection_id"}])>>

send_error_response(kind) ==
    (IF is_headers_sent THEN <<>> ELSE <<StartMsg(500)>>)
    \o <<ErrorMsg(FALSE, [type |-> kind, code |-> 0,
                          fields |-> {"type", "message", "provider",
                                      "connection_id"}])>>

\* The message that closes a cleanly completed relay.
asgi_end_events_none == <<>>

asgi_end_events == <<EndMsg>>

\* The response is started (status 200) and the client is created.  A send
\* that raises is handled by except Exception: the error response cannot be
\* sent either, and no client exists yet.
AsgiStart ==
    /\ transport = "asgi" /\ spc = "created"
    /\ \E raises \in SendRaises :
          IF raises
          THEN /\ streamer_error_count' = streamer_error_count + 1
               /\ spc' = "done"
               /\ UNCHANGED <<sent, is_headers_sent, client>>
          ELSE /\ sent' = Deliver(<<StartMsg(200)>>)
               /\ is_headers_sent' = TRUE
               /\ client' = "open"
               /\ spc' = "connecting"
               /\ UNCHANGED streamer_error_count
    /\ UNCHANGED <<regVars, selVars, transport, upstream, pos, connected,
                   reads_after_disconnect>>
    /\ UNCHANGED <<pipeVars, healthVars>>

\* client.stream(...) is entered: the connection fails (an except clause
\* counts it in the streamer's own error_count and sends the error event), or
\* the status arrives.
AsgiConnect ==
    /\ transport = "asgi" /\ spc = "connecting"
    /\ IF upstream.connect = "ok"
       THEN IF upstream.code # 200
            THEN \E raises \in SendRaises :
                    /\ sent' = Deliver(asgi_non200_events(upstream.code))
                    /\ streamer_error_count' =
                           streamer_error_count + (IF raises THEN 1 ELSE 0)
                    /\ spc' = "finally"
            ELSE /\ spc' = "reading"
                 /\ UNCHANGED <<sent, streamer_error_count>>
       ELSE /\ streamer_error_count' = streamer_error_count + 1
            /\ sent' = Deliver(send_error_response(error_type(upstream.connect)))
            /\ spc' = "finally"
    /\ UNCHANGED <<regVars, selVars, transport, upstream, pos, client, connected,
                   is_headers_sent, reads_after_disconnect>>
    /\ UNCHANGED <<pipeVars, healthVars>>

\* One iteration of async for chunk in response.aiter_bytes(...): a non-empty
\* chunk is sent at once and the next read begins.  Nothing in the loop looks
\* for the caller's disconnect: only a send that raises ends it.
AsgiChunk ==
    /\ transport = "asgi" /\ spc = "reading"
    /\ pos < Len(upstream.chunks)
    /\ pos' = pos + 1
    /\ LET c == aiter_bytes(upstream.encoding, upstream.chunks[pos + 1])
       IN  \E raises \in (IF c # 0 THEN SendRaises ELSE {FALSE}) :
              IF raises
              THEN /\ streamer_error_count' = streamer_error_count + 1
                   /\ spc' = "finally"
                   /\ UNCHANGED <<sent, reads_after_disconnect>>
              ELSE /\ sent' = IF c # 0 THEN Deliver(<<BodyMsg(c)>>) ELSE sent
                   /\ reads_after_disconnect' =
                          reads_after_disconnect
                              + (IF c # 0 /\ ~connected THEN 1 ELSE 0)
                   /\ UNCHANGED <<spc, streamer_error_count>>
    /\ UNCHANGED <<regVars, selVars, transport, upstream, client, connected,
                   is_headers_sent>>
    /\ UNCHANGED <<pipeVars, healthVars>>

\* The upstream body ends: cleanly (the closing message is sent, then the
\* provider's error counter is decremented), or by a timeout or another
\* exception (an except clause).
AsgiEnd ==
    /\ transport = "asgi" /\ spc = "reading"
    /\ pos = Len(upstream.chunks)
    /\ IF upstream.tail = "eof"
       THEN \E raises \in SendRaises :
              IF raises
              THEN /\ streamer_error_count' = streamer_error_count + 1
                   /\ UNCHANGED <<sent, error_count>>
              ELSE /\ sent' = Deliver(asgi_end_events)
                   /\ error_count' = record_success(selected)
                   /\ UNCHANGED streamer_error_count
       ELSE /\ streamer_error_count' = streamer_error_count + 1
            /\ sent' = Deliver(send_error_response(error_type(upstream.tail)))
            /\ UNCHANGED error_count
    /\ spc' = "finally"
    /\ UNCHANGED <<status, response_time, selVars, transport, upstream, pos, client,
                   connected, is_headers_sent, reads_after_disconnect>>
    /\ UNCHANGED <<pipeVars, healthVars>>

\* finally: await client.aclose()
AsgiFinally ==
    /\ transport = "asgi" /\ spc = "finally"
    /\ client' = "closed"
    /\ spc' = "done"
    /\ UNCHANGED <<regVars, selVars, transport, upstream, pos, sent, connected,
                   is_headers_sent, streamer_error_count, reads_after_disconnect>>
    /\ UNCHANGED <<pipeVars, healthVars>>

\* ---- the caller
\* The caller disconnects.  StreamingResponse, which listens for the
\* disconnect, cancels the iteration of stream_generator: the generator is
\* thrown into its finally clause (or never runs).  stream_response is
\* awaited directly and is not told.
CallerDisconnect ==
    /\ spc \notin {"none", "done"}
    /\ connected
    /\ connected' = FALSE
    /\ spc' = IF transport = "generator"
              THEN CASE spc = "created" -> "done"
                     [] spc \in {"connecting", "reading"} -> "finally"
                     [] OTHER -> spc
              ELSE spc
    /\ UNCHANGED <<regVars, selVars, transport, upstream, pos, sent, client,
                   is_headers_sent, streamer_error_count, reads_after_disconnect>>
    /\ UNCHANGED <<pipeVars, healthVars>>

NextStream ==
    \/ GenStart \/ GenConnect \/ GenChunk \/ GenEnd \/ GenFinally \/ GenResponseEnd
    \/ AsgiStart \/ AsgiConnect \/ AsgiChunk \/ AsgiEnd \/ AsgiFinally
    \/ CallerDisconnect

SpecStream == InitStream /\ [][NextStream]_vars

\* ---- SpecFailure: a stream_generator call that fails at the connection or
\* gets a non-200 answer, against every registry within the bounds: the
\* except clause raises the error_count of the provider streamed to, and
\* the next request's selection sees the raised count.
FailingUpstreams ==
    {b \in UpstreamBehaviours : b.connect # "ok" \/ b.code # 200}

InitFailure ==
    /\ transport = "generator"
    /\ upstream \in FailingUpstreams
    /\ selected \in Range(ProviderNames)
    /\ reqModel \in {"gpt-4", "codegemma"}
    /\ status \in [Range(ProviderNames) -> {"healthy", "unhealthy"}]
    /\ error_count \in [Range(ProviderNames) -> 0..MaxErr]
    /\ response_time = [p \in Range(ProviderNames) |-> 0]
    /\ spc = "created"
    /\ pos = 0
    /\ sent = <<>>
    /\ client = "none"
    /\ connected = TRUE
    /\ is_headers_sent = FALSE
    /\ streamer_error_count = 0
    /\ reads_after_disconnect = 0
    /\ NoTasks
    /\ NoHealth

NextFailure == GenStart \/ GenConnect \/ GenFinally \/ GenResponseEnd

SpecFailure == InitFailure /\ [][NextFailure]_vars

\* ---- what the caller got
RECURSIVE Bodies(_)
Bodies(s) ==
    IF s = <<>> THEN <<>>
    ELSE (IF Head(s).body > 0 THEN <<Head(s).body>> ELSE <<>>) \o Bodies(Tail(s))

\* the content chunks, in order
Content == Bodies(sent)

\* the error events, in order
ErrorEvents == SelectSeq(sent, LAMBDA m : m.error # NoError)

NonEmptyChunks == \A i \in DOMAIN upstream.chunks : upstream.chunks[i] # 0

CleanUpstream ==
    upstream.connect = "ok" /\ upstream.code = 200 /\ upstream.tail = "eof"

\* ==================================================================== Spec
\* The API-key / quota gate and the two chat-completion handlers, serving
\* requests one after the other while the date may change.

\* Models asked for by the requests of this specification.
PipelineModels == {"gpt-4", "code-assistant", "deepseek-chat"}

\* How a forward to the provider ends: HTTP 200, a non-200 status, a
\* ConnectError, a TimeoutException, another exception.
ForwardOutcomes == {"ok", "non200", "connect_error", "timeout", "error"}

\* How a streaming forward ends: as above, a timeout or another exception
\* either before the connection is made or in the middle of the stream.
StreamOutcomes == {"ok", "non200", "connect_error", "connect_timeout",
                   "connect_exception", "mid_timeout", "mid_exception"}

\* ---- verify_api_key
verify_api_key(key) ==
    IF auth_mode = "shared"
    THEN IF key = shared_api_key
         THEN [kind |-> "new", key |-> key, rec |-> UserInfo(SharedDailyLimit, today, TRUE)]
         ELSE NoUser
    ELSE IF auth_mode = "multi_user"
    THEN IF key \in DOMAIN users
         THEN [kind |-> "db", key |-> key, rec |-> users[key]]
         ELSE NoUser
    ELSE NoUser

\* ---- check_quota: the reset of a new day, then the comparison
quota_reset_never(u) == u

quota_reset_stamps_date(u) ==
    IF u.last_request # today
    THEN [u EXCEPT !.requests_today = 0, !.last_request = today]
    ELSE u

quota_reset(u) ==
    IF u.last_request # today THEN [u EXCEPT !.requests_today = 0] ELSE u

has_quota(u) == u.requests_today < u.daily_limit

\* ---- update_user_stats
update_user_stats_today_only(u) ==
    [u EXCEPT !.requests_today = @ + 1, !.last_request = today]

update_user_stats(u) ==
    [u EXCEPT !.requests_today = @ + 1, !.total_requests = @ + 1,
              !.last_request = today]

\* ---- authenticate: the status of each rejection
auth_rejection_inactive_as_401(reason) ==
    CASE reason = "unknown"  -> [code |-> 401, detail |-> "Invalid API key"]
      [] reason = "inactive" -> [code |-> 401, detail |-> "Invalid API key"]
      [] reason = "quota"    -> [code |-> 429, detail |-> "Daily quota exceeded"]

auth_rejection(reason) ==
    CASE reason = "unknown"  -> [code |-> 401, detail |-> "Invalid API key"]
      [] reason = "inactive" -> [code |-> 403, detail |-> "User account is inactive"]
      [] reason = "quota"    -> [code |-> 429, detail |-> "Daily quota exceeded"]

\* Where a request is after authenticate raised: the dependency failed, the
\* handler is not called.
pc_after_rejection_runs_handler == "admitted"

pc_after_rejection == "done"

\* Where a handler is after its forward failed: it raises, it does not retry.
after_forward_failure_retry == "read_body"

after_forward_failure == "done"

\* The number of provider.error_count += 1 a failed non-streaming
\* forward_request executes: the one of its branch and, as the HTTPException
\* raised there is caught by the outer except Exception, that one too.
nonstream_failure_increments(outcome) == IF outcome = "error" THEN 1 ELSE 2

\* The HTTPException a failed non-streaming forward raises in the branch of
\* its failure: the upstream's status for a non-200, 502 for a ConnectError,
\* 504 for a TimeoutException.
inner_http_exception(outcome, code) ==
    CASE outcome = "non200" ->
            [status_code |-> code, detail |-> "Provider error: <upstream text>"]
      [] outcome = "connect_error" ->
            [status_code |-> 502, detail |-> "Connection error: <exception text>"]
      [] outcome = "timeout" ->
            [status_code |-> 504, detail |-> "Provider timeout: <exception text>"]

\* str(e) of an HTTPException: "<status_code>: <detail>".
http_exception_str(e) == ToString(e.status_code) \o ": " \o e.detail

\* What forward_request raises in the end, and chat_completions re-raises:
\* the exception of its outer except clause, which catches the inner one.
nonstream_failure_response(outcome, code) ==
    IF outcome = "error"
    THEN [code |-> 502, detail |-> "Provider error: <exception text>"]
    ELSE [code |-> 502,
          detail |-> "Provider error: "
                        \o http_exception_str(inner_http_exception(outcome, code))]

InitSpec ==
    /\ status = [p \in Range(ProviderNames) |-> "unknown"]
    /\ error_count = [p \in Range(ProviderNames) |-> 0]
    /\ response_time = [p \in Range(ProviderNames) |-> 0]
    /\ reqModel = "gpt-4"
    /\ selected = NotCalled
    /\ NoStream
    /\ NoHealth
    /\ auth_mode \in {"shared", "multi_user"}
    /\ \E act \in [UserKeys -> BOOLEAN] :
          users = [k \in UserKeys |->
                      UserInfo(IF k = DemoKey THEN DemoDailyLimit ELSE AdminDailyLimit,
                               0, act[k])]
    /\ today = 0
    /\ stats = NoStats
    /\ pc = [r \in Tasks |-> "idle"]
    /\ req = [r \in Tasks |-> NoRequest]
    /\ user_info = [r \in Tasks |-> NoUser]
    /\ provider = [r \in Tasks |-> None]
    /\ response = [r \in Tasks |-> NoResponse]
    /\ selections = [r \in Tasks |-> <<>>]
    /\ attempts = [r \in Tasks |-> <<>>]
    /\ request_data = [r \in Tasks |-> <<>>]
    /\ outcomes = [r \in Tasks |-> <<>>]
    /\ user_updates = [r \in Tasks |-> 0]
    /\ started = 0
    /\ admissions = [k \in UserKeys |-> 0]

\* The date changes.
Tick ==
    /\ today < MaxDay
    /\ today' = today + 1
    /\ UNCHANGED <<regVars, selVars, streamVars, healthVars, auth_mode, users, stats, taskVars>>

\* A request with a bearer credential arrives at one of the two endpoints.
NewRequest(r) ==
    /\ pc[r] \in {"idle", "done"}
    /\ started < MaxRequests
    /\ started' = started + 1
    /\ \E k \in Keys, ep \in Endpoints :
          req' = [req EXCEPT ![r] = [NoRequest EXCEPT !.key = k, !.endpoint = ep]]
    /\ pc' = [pc EXCEPT ![r] = "auth"]
    /\ user_info' = [user_info EXCEPT ![r] = NoUser]
    /\ provider' = [provider EXCEPT ![r] = None]
    /\ response' = [response EXCEPT ![r] = NoResponse]
    /\ selections' = [selections EXCEPT ![r] = <<>>]
    /\ attempts' = [attempts EXCEPT ![r] = <<>>]
    /\ request_data' = [request_data EXCEPT ![r] = <<>>]
    /\ outcomes' = [outcomes EXCEPT ![r] = <<>>]
    /\ user_updates' = [user_updates EXCEPT ![r] = 0]
    /\ UNCHANGED <<regVars, selVars, streamVars, healthVars, authVars, stats, admissions>>

\* authenticate (the dependency of both endpoints).
authenticate(r) ==
    /\ pc[r] = "auth"
    /\ LET found == verify_api_key(req[r].key)
           reject(reason) ==
               /\ response' = [response EXCEPT ![r] = auth_rejection(reason)]
               /\ pc' = [pc EXCEPT ![r] = pc_after_rejection]
               /\ UNCHANGED <<user_info, admissions>>
       IN  IF found.kind = "none"
           THEN reject("unknown") /\ UNCHANGED users
           ELSE IF ~found.rec.is_active
           THEN reject("inactive") /\ UNCHANGED users
           ELSE LET u == quota_reset(found.rec)
                IN  /\ users' = IF found.kind = "db"
                                THEN [users EXCEPT ![found.key] = u]
                                ELSE users
                    /\ IF has_quota(u)
                       THEN /\ user_info' = [user_info EXCEPT ![r] = [found EXCEPT !.rec = u]]
                            /\ admissions' = IF found.kind = "db"
                                             THEN [admissions EXCEPT ![found.key] = @ + 1]
                                             ELSE admissions
                            /\ pc' = [pc EXCEPT ![r] = "admitted"]
                            /\ UNCHANGED response
                       ELSE reject("quota")
    /\ UNCHANGED <<regVars, selVars, streamVars, healthVars, auth_mode, today, stats, req,
                   provider, selections, attempts, request_data, outcomes, user_updates,
                   started>>

\* The handler starts: total_requests of the statistics and the user's
\* counters are incremented, then the body is awaited.
HandlerEntry(r) ==
    /\ pc[r] = "admitted"
    /\ stats' = [stats EXCEPT !.total_requests = @ + 1]
    /\ IF user_info[r].kind = "db"
       THEN /\ users' = [users EXCEPT ![user_info[r].key] = update_user_stats(@)]
            /\ UNCHANGED user_info
       ELSE /\ user_info' = [user_info EXCEPT ![r].rec = update_user_stats(@)]
            /\ UNCHANGED users
    /\ user_updates' = [user_updates EXCEPT ![r] = @ + 1]
    /\ pc' = [pc EXCEPT ![r] = "read_body"]
    /\ UNCHANGED <<regVars, selVars, streamVars, healthVars, auth_mode, today, req, provider,
                   response, selections, attempts, request_data, outcomes, started,
                   admissions>>

\* ---- chat_completions and chat_completions_asgi, after the body is read
AsgiEndpoint == "/v1/chat/completions/asgi"

\* stream defaults to true when the body does not give it; the ASGI endpoint
\* forces it.
stream_flag(ep, body) ==
    ep = AsgiEndpoint \/ body.stream = "absent" \/ body.stream = "true"

\* The direct relay is chosen by the body field, by the header, or by the
\* ASGI endpoint.
use_asgi_streaming_and(ep, body, header) ==
    ep = AsgiEndpoint \/ (body.x_use_asgi_streaming /\ header)

use_asgi_streaming(ep, body, header) ==
    ep = AsgiEndpoint \/ body.x_use_asgi_streaming \/ header

uses_direct_relay(r) ==
    use_asgi_streaming(req[r].endpoint, req[r].body, req[r].header)

\* What each endpoint answers when its handler raises.
body_error_response(ep) ==
    IF ep = AsgiEndpoint
    THEN [code |-> 500, detail |-> "ASGI streaming error: <exception text>"]
    ELSE [code |-> 500, detail |-> "Internal server error"]

no_provider_response(ep) ==
    IF ep = AsgiEndpoint
    THEN [code |-> 500, detail |-> "ASGI streaming error: <exception text>"]
    ELSE [code |-> 503, detail |-> "No available AI providers"]

\* failed_requests += 1 executed when no provider is selected: the handler's
\* own and the one of its except HTTPException; the ASGI endpoint has one.
no_provider_failures(ep) == IF ep = AsgiEndpoint THEN 1 ELSE 2

\* The body is read and parsed, the provider selected, the dispatch made:
\* a streaming response is returned at once, a non-streaming POST is issued.
HandlerBody(r) ==
    /\ pc[r] = "read_body"
    /\ \E body \in RequestBodies, header \in BOOLEAN, m \in PipelineModels :
        LET ep == req[r].endpoint IN
        /\ req' = [req EXCEPT ![r].body = body, ![r].header = header, ![r].model = m]
        /\ IF ~body.valid
           THEN /\ stats' = [stats EXCEPT !.failed_requests = @ + 1]
                /\ response' = [response EXCEPT ![r] = body_error_response(ep)]
                /\ pc' = [pc EXCEPT ![r] = "done"]
                /\ UNCHANGED <<provider, selections, attempts, request_data>>
           ELSE \E p \in select_provider(ProviderNames, m) :
                /\ selections' = [selections EXCEPT ![r] = Append(@, p)]
                /\ provider' = [provider EXCEPT ![r] = p]
                /\ IF p = None
                   THEN /\ stats' = [stats EXCEPT
                                        !.failed_requests = @ + no_provider_failures(ep)]
                        /\ response' = [response EXCEPT ![r] = no_provider_response(ep)]
                        /\ pc' = [pc EXCEPT ![r] = "done"]
                        /\ UNCHANGED <<attempts, request_data>>
                   ELSE IF stream_flag(ep, body)
                   THEN /\ stats' = [stats EXCEPT
                                        !.provider_usage[p] = @ + 1,
                                        !.successful_requests = @ + 1]
                        /\ response' = [response EXCEPT ![r] =
                                           [code |-> 200, detail |-> "text/event-stream"]]
                        /\ pc' = [pc EXCEPT ![r] = "streaming"]
                        /\ UNCHANGED <<attempts, request_data>>
                   ELSE /\ stats' = [stats EXCEPT !.provider_usage[p] = @ + 1]
                        /\ attempts' = [attempts EXCEPT ![r] = Append(@, p)]
                        /\ request_data' = [request_data EXCEPT
                                               ![r] = Append(@, request_data_model(m, p))]
                        /\ pc' = [pc EXCEPT ![r] = "forwarding"]
                        /\ UNCHANGED response
    /\ UNCHANGED <<regVars, selVars, streamVars, healthVars, authVars, user_info,
                   outcomes, user_updates, started, admissions>>

\* forward_request without streaming returns or raises, and the handler with it.
ForwardComplete(r) ==
    /\ pc[r] = "forwarding"
    /\ \E outcome \in ForwardOutcomes, elapsed \in ConnTimes,
          code \in UpstreamCodes \ {200} :
        LET p == provider[r] IN
        /\ outcomes' = [outcomes EXCEPT ![r] = Append(@, outcome)]
        /\ IF outcome = "ok"
           THEN /\ response_time' = [response_time EXCEPT ![p] = smoothed(@, elapsed)]
                /\ error_count' = record_success(p)
                /\ stats' = [stats EXCEPT !.successful_requests = @ + 1]
                /\ response' = [response EXCEPT ![r] =
                                   [code |-> 200, detail |-> "completion"]]
                /\ pc' = [pc EXCEPT ![r] = "done"]
           ELSE /\ response_time' = IF outcome = "non200"
                                    THEN [response_time EXCEPT ![p] = smoothed(@, elapsed)]
                                    ELSE response_time
                /\ error_count' = [error_count EXCEPT
                                      ![p] = @ + nonstream_failure_increments(outcome)]
                /\ stats' = [stats EXCEPT !.failed_requests = @ + 2]
                /\ response' = [response EXCEPT ![r] =
                                   nonstream_failure_response(outcome, code)]
                /\ pc' = [pc EXCEPT ![r] = after_forward_failure]
    /\ UNCHANGED <<status, selVars, streamVars, healthVars, authVars, req, user_info,
                   provider, selections, attempts, request_data, user_updates, started,
                   admissions>>

\* The StreamingResponse runs stream_generator to its end: one POST to the
\* selected provider, and the registry updated by how it went.
GeneratorStreamRun(r) ==
    /\ pc[r] = "streaming"
    /\ ~uses_direct_relay(r)
    /\ \E outcome \in StreamOutcomes, elapsed \in ConnTimes :
        LET p == provider[r]
            connected_to == outcome \in {"ok", "non200", "mid_timeout", "mid_exception"}
        IN
        /\ response_time' = IF connected_to
                            THEN [response_time EXCEPT ![p] = smoothed(@, elapsed)]
                            ELSE response_time
        /\ error_count' = IF outcome = "ok" THEN record_success(p)
                          ELSE IF outcome = "non200" THEN error_count
                          ELSE record_failure(p)
        /\ outcomes' = [outcomes EXCEPT ![r] = Append(@, outcome)]
    /\ attempts' = [attempts EXCEPT ![r] = Append(@, provider[r])]
    /\ request_data' = [request_data EXCEPT
                           ![r] = Append(@, request_data_model(req[r].model, provider[r]))]
    /\ pc' = [pc EXCEPT ![r] = "done"]
    /\ UNCHANGED <<status, selVars, streamVars, healthVars, authVars, stats, req, user_info,
                   provider, response, selections, user_updates, started, admissions>>

\* The response object runs LowLevelASGIStreamer.stream_response to its end:
\* one POST to the selected provider; only a clean end touches the registry.
AsgiStreamRun(r) ==
    /\ pc[r] = "streaming"
    /\ uses_direct_relay(r)
    /\ \E outcome \in StreamOutcomes :
        /\ error_count' = IF outcome = "ok" THEN record_success(provider[r])
                          ELSE error_count
        /\ outcomes' = [outcomes EXCEPT ![r] = Append(@, outcome)]
    /\ attempts' = [attempts EXCEPT ![r] = Append(@, provider[r])]
    /\ request_data' = [request_data EXCEPT
                           ![r] = Append(@, asgi_request_data_model(req[r].model,
                                                                     provider[r]))]
    /\ pc' = [pc EXCEPT ![r] = "done"]
    /\ UNCHANGED <<status, response_time, selVars, streamVars, healthVars, authVars, stats, req,
                   user_info, provider, response, selections, user_updates, started,
                   admissions>>

Next ==
    \/ Tick
    \/ \E r \in Tasks : NewRequest(r)
    \/ \E r \in Tasks : authenticate(r)
    \/ \E r \in Tasks : HandlerEntry(r)
    \/ \E r \in Tasks : HandlerBody(r)
    \/ \E r \in Tasks : ForwardComplete(r)
    \/ \E r \in Tasks : GeneratorStreamRun(r)
    \/ \E r \in Tasks : AsgiStreamRun(r)

Spec == InitSpec /\ [][Next]_vars

\* ================================================================ SpecQuota
\* Two requests in flight at once in multi_user mode, from the arrival to
\* the await of the body.  authenticate has no await, and the handler
\* increments the user's counters before its first await (request.json()):
\* from the quota check of a request to its increment the event loop runs
\* no other task.  The date may change at any time.
QuotaTasks == {1, 2}

event_loop_free_preemptive(r) == TRUE

event_loop_free(r) == \A q \in QuotaTasks \ {r} : pc[q] # "admitted"

InitQuota ==
    /\ status = [p \in Range(ProviderNames) |-> "unknown"]
    /\ error_count = [p \in Range(ProviderNames) |-> 0]
    /\ response_time = [p \in Range(ProviderNames) |-> 0]
    /\ reqModel = "gpt-4"
    /\ selected = NotCalled
    /\ NoStream
    /\ NoHealth
    /\ auth_mode = "multi_user"
    /\ \E act \in [UserKeys -> BOOLEAN] :
          users = [k \in UserKeys |->
                      UserInfo(IF k = DemoKey THEN DemoDailyLimit ELSE AdminDailyLimit,
                               0, act[k])]
    /\ today = 0
    /\ stats = NoStats
    /\ pc = [r \in QuotaTasks |-> "idle"]
    /\ req = [r \in QuotaTasks |-> NoRequest]
    /\ user_info = [r \in QuotaTasks |-> NoUser]
    /\ provider = [r \in QuotaTasks |-> None]
    /\ response = [r \in QuotaTasks |-> NoResponse]
    /\ selections = [r \in QuotaTasks |-> <<>>]
    /\ attempts = [r \in QuotaTasks |-> <<>>]
    /\ request_data = [r \in QuotaTasks |-> <<>>]
    /\ outcomes = [r \in QuotaTasks |-> <<>>]
    /\ user_updates = [r \in QuotaTasks |-> 0]
    /\ started = 0
    /\ admissions = [k \in UserKeys |-> 0]

NextQuota ==
    \/ Tick
    \/ \E r \in QuotaTasks : event_loop_free(r) /\ NewRequest(r)
    \/ \E r \in QuotaTasks : event_loop_free(r) /\ authenticate(r)
    \/ \E r \in QuotaTasks : event_loop_free(r) /\ HandlerEntry(r)

SpecQuota == InitQuota /\ [][NextQuota]_vars

\* ============================================================== SpecHealth
\* The health monitor: start_health_checks, health_check_loop and the
\* health_check_provider calls of a cycle, which run concurrently.

\* Calls of start_health_checks, and the last reading of the clock.
MaxStarts == 2
MaxNow == 2

\* Largest error_count at which a probe is still let fail.
MaxProbeErr == 2

\* Elapsed time of a probe (tenths of a second; the probe timeout is 10 s).
ProbeTimes == {3}

\* How a probe ends: HTTP 200, another status, ConnectError, a timeout,
\* another exception.
ProbeOutcomes == {"200", "non200", "connect_error", "timeout", "error"}

\* ---- start_health_checks: if self.health_check_task is None
task_is_none_always(t) == TRUE

task_is_none(t) == t = None

\* ---- health_check_provider
\* The response arrived: response_time and last_check are set before the
\* status is looked at.
probe_response_time_smoothed(old, outcome, elapsed) ==
    IF outcome \in {"200", "non200"} THEN smoothed(old, elapsed) ELSE old

probe_response_time(old, outcome, elapsed) ==
    IF outcome \in {"200", "non200"} THEN elapsed ELSE old

probe_status_keeps_on_exception(old, outcome) ==
    IF outcome = "200" THEN "healthy"
    ELSE IF outcome = "non200" THEN "unhealthy" ELSE old

probe_status_healthy_on_answer(old, outcome) ==
    IF outcome \in {"200", "non200"} THEN "healthy" ELSE "unhealthy"

probe_status(old, outcome) == IF outcome = "200" THEN "healthy" ELSE "unhealthy"

probe_error_count_decrement(old, outcome) ==
    IF outcome = "200" THEN MaxOf(0, old - 1) ELSE old + 1

probe_error_count_stale(old, outcome) == IF outcome = "200" THEN 0 ELSE 1

probe_error_count(old, outcome) == IF outcome = "200" THEN 0 ELSE old + 1

\* What health_check_provider returns (it returns in every case).
probe_return(outcome) == IF outcome = "200" THEN "True" ELSE "False"

\* ---- health_check_loop
\* The providers whose probes a cycle gathers.
cycle_probes_first_only == {ProviderNames[1]}

cycle_probes == Range(ProviderNames)

\* Where the loop is after its body raised: in the sleep of its except clause.
hpc_after_loop_error_exits == "exited"

hpc_after_loop_error == "sleeping_after_error"

InitHealth ==
    /\ status = [p \in Range(ProviderNames) |-> "unknown"]
    /\ error_count = [p \in Range(ProviderNames) |-> 0]
    /\ response_time = [p \in Range(ProviderNames) |-> 0]
    /\ reqModel = "gpt-4"
    /\ selected = NotCalled
    /\ NoStream
    /\ NoTasks
    /\ NoHealth

\* time.time() moves on.
ClockAdvance ==
    /\ now < MaxNow
    /\ now' = now + 1
    /\ UNCHANGED <<regVars, selVars, streamVars, pipeVars, health_check_task, hpc,
                   probe, last_check, loop_tasks, starts, health_get>>

\* start_health_checks (it has no suspension point: test and assignment are
\* one step of the event loop).
StartHealthChecks ==
    /\ starts < MaxStarts
    /\ starts' = starts + 1
    /\ IF task_is_none(health_check_task)
       THEN /\ health_check_task' = "health_check_loop"
            /\ loop_tasks' = loop_tasks + 1
            /\ hpc' = "created"
       ELSE UNCHANGED <<health_check_task, loop_tasks, hpc>>
    /\ UNCHANGED <<regVars, selVars, streamVars, pipeVars, probe, last_check, now,
                   health_get>>

\* The loop task runs for the first time, or its sleep is over: a
\* health_check_provider call is made for the providers and each runs up to
\* its POST.
CycleStart ==
    /\ hpc \in {"created", "sleeping", "sleeping_after_error"}
    /\ probe' = [p \in Range(ProviderNames) |->
                    IF p \in cycle_probes THEN "pending" ELSE "idle"]
    /\ hpc' = "gathering"
    /\ UNCHANGED <<regVars, selVars, streamVars, pipeVars, health_check_task,
                   last_check, now, loop_tasks, starts, health_get>>

\* The POST of the probe of provider p returns or raises, and
\* health_check_provider runs to its return.
ProbeFinish(p) ==
    /\ hpc = "gathering"
    /\ probe[p] = "pending"
    /\ \E outcome \in ProbeOutcomes, elapsed \in ProbeTimes :
        /\ outcome # "200" => error_count[p] < MaxProbeErr
        /\ probe' = [probe EXCEPT ![p] = probe_return(outcome)]
        /\ status' = [status EXCEPT ![p] = probe_status(@, outcome)]
        /\ error_count' = [error_count EXCEPT ![p] = probe_error_count(@, outcome)]
        /\ response_time' = [response_time EXCEPT
                                ![p] = probe_response_time(@, outcome, elapsed)]
        /\ last_check' = [last_check EXCEPT ![p] = now]
    /\ UNCHANGED <<selVars, streamVars, pipeVars, health_check_task, hpc, now,
                   loop_tasks, starts, health_get>>

\* asyncio.gather returns when every probe has returned; the rest of the
\* loop body runs, or raises into the except clause, and the loop sleeps.
GatherDone ==
    /\ hpc = "gathering"
    /\ \A p \in cycle_probes : probe[p] \in {"True", "False"}
    /\ \E raised \in BOOLEAN :
          hpc' = IF raised THEN hpc_after_loop_error ELSE "sleeping"
    /\ UNCHANGED <<regVars, selVars, streamVars, pipeVars, health_check_task,
                   probe, last_check, now, loop_tasks, starts, health_get>>

NextHealth ==
    \/ ClockAdvance
    \/ StartHealthChecks
    \/ CycleStart
    \/ \E p \in Range(ProviderNames) : ProbeFinish(p)
    \/ GatherDone

SpecHealth == InitHealth /\ [][NextHealth]_vars

\* The event loop runs every task that can run.
SpecHealthFair ==
    /\ SpecHealth
    /\ WF_vars(CycleStart)
    /\ WF_vars(GatherDone)
    /\ \A p \in Range(ProviderNames) : WF_vars(ProbeFinish(p))

\* ---- SpecRecovery: the running monitor over providers that are unhealthy,
\* some of them with an error_count above the selector's ceiling.
InitRecovery ==
    /\ status = [p \in Range(ProviderNames) |-> "unhealthy"]
    /\ error_count \in [Range(ProviderNames) -> {1, ErrorCeiling + 1}]
    /\ response_time = [p \in Range(ProviderNames) |-> 0]
    /\ reqModel = "gpt-4"
    /\ selected = NotCalled
    /\ NoStream
    /\ NoTasks
    /\ health_check_task = "health_check_loop"
    /\ hpc = "sleeping"
    /\ probe = [p \in Range(ProviderNames) |-> "False"]
    /\ last_check = [p \in Range(ProviderNames) |-> 0]
    /\ now = 1
    /\ loop_tasks = 1
    /\ starts = 1
    /\ health_get = NoHealthGet

NextRecovery ==
    \/ CycleStart
    \/ \E p \in Range(ProviderNames) : ProbeFinish(p)
    \/ GatherDone

\* The event loop runs every task that can run.
SpecRecovery ==
    /\ InitRecovery /\ [][NextRecovery]_vars
    /\ WF_vars(CycleStart)
    /\ WF_vars(GatherDone)
    /\ \A p \in Range(ProviderNames) : WF_vars(ProbeFinish(p))

\* ============================================================ SpecRegistry
\* The provider registry under its two writers: the probes of the health
\* monitor and the forward of a request in flight.

\* ---- GET /health (health_check): no dependency on authenticate, and no
\* suspension point between reading the registry and returning.

\* What a GET /health may come with: no credential, or some key.
HealthCredentials == {None, "sk-invalid"}

\* healthy_providers = [p.name for p in router.providers if p.status == HEALTHY]
healthy_provider_names == SelectSeq(ProviderNames, LAMBDA p : status[p] = "healthy")

\* "healthy" if healthy_providers else "unhealthy"
overall_status_all_healthy ==
    IF Len(healthy_provider_names) = Len(ProviderNames) THEN "healthy" ELSE "unhealthy"

overall_status == IF healthy_provider_names # <<>> THEN "healthy" ELSE "unhealthy"

health_check_response ==
    [status    |-> overall_status,
     providers |-> [p \in Range(ProviderNames) |->
                       [status |-> status[p], response_time |-> response_time[p],
                        error_count |-> error_count[p], last_check |-> last_check[p]]],
     stats     |-> stats,
     auth_mode |-> auth_mode]

health_check ==
    /\ \E credentials \in HealthCredentials :
          health_get' = [credentials |-> credentials, code |-> 200]
                            @@ health_check_response
    /\ UNCHANGED <<regVars, selVars, streamVars, pipeVars, health_check_task, hpc,
                   probe, last_check, now, loop_tasks, starts>>

\* The health monitor with GET /health requests arriving at any time.
NextHealthGet ==
    \/ StartHealthChecks
    \/ CycleStart
    \/ \E p \in Range(ProviderNames) : ProbeFinish(p)
    \/ GatherDone
    \/ health_check

\* The constructor's state, read when time.time() has moved on from the
\* value the last_check fields were given.
InitHealthGet ==
    /\ status = [p \in Range(ProviderNames) |-> "unknown"]
    /\ error_count = [p \in Range(ProviderNames) |-> 0]
    /\ response_time = [p \in Range(ProviderNames) |-> 0]
    /\ reqModel = "gpt-4"
    /\ selected = NotCalled
    /\ NoStream
    /\ NoTasks
    /\ health_check_task = None
    /\ hpc = "none"
    /\ probe = [p \in Range(ProviderNames) |-> "idle"]
    /\ last_check = [p \in Range(ProviderNames) |-> 0]
    /\ now = 1
    /\ loop_tasks = 0
    /\ starts = 0
    /\ health_get = NoHealthGet

SpecHealthGet == InitHealthGet /\ [][NextHealthGet]_vars

\* The requests in flight: a non-streaming one, one for the buffered
\* generator and one for the direct relay.
DispatchShapes ==
    {[endpoint |-> "/v1/chat/completions", header |-> FALSE,
      body |-> [valid |-> TRUE, why |-> "", stream |-> st, x_use_asgi_streaming |-> a]]
        : st \in {"true", "false"}, a \in {FALSE}}
    \cup
    {[endpoint |-> AsgiEndpoint, header |-> FALSE,
      body |-> [valid |-> TRUE, why |-> "", stream |-> "absent",
                x_use_asgi_streaming |-> FALSE]]}

\* The request-handling variables after the first request, made with the
\* shared key, has been authenticated, counted and dispatched to provider p
\* (the state authenticate, HandlerEntry and HandlerBody lead to).
Dispatched(shape, m, p) ==
    LET streams == stream_flag(shape.endpoint, shape.body) IN
    /\ auth_mode = "shared"
    /\ users = [k \in UserKeys |->
                   UserInfo(IF k = DemoKey THEN DemoDailyLimit ELSE AdminDailyLimit,
                            0, TRUE)]
    /\ today = 0
    /\ stats = [NoStats EXCEPT !.total_requests = 1,
                               !.successful_requests = IF streams THEN 1 ELSE 0,
                               !.provider_usage[p] = 1]
    /\ pc = [r \in Tasks |-> IF streams THEN "streaming" ELSE "forwarding"]
    /\ req = [r \in Tasks |->
                 [key |-> shared_api_key, endpoint |-> shape.endpoint,
                  body |-> shape.body, header |-> shape.header, model |-> m]]
    /\ user_info = [r \in Tasks |->
                       [kind |-> "new", key |-> shared_api_key,
                        rec |-> update_user_stats(UserInfo(SharedDailyLimit, 0, TRUE))]]
    /\ provider = [r \in Tasks |-> p]
    /\ response = [r \in Tasks |->
                      IF streams THEN [code |-> 200, detail |-> "text/event-stream"]
                      ELSE NoResponse]
    /\ selections = [r \in Tasks |-> <<p>>]
    /\ attempts = [r \in Tasks |-> IF streams THEN <<>> ELSE <<p>>]
    /\ request_data = [r \in Tasks |->
                          IF streams THEN <<>> ELSE <<request_data_model(m, p)>>]
    /\ outcomes = [r \in Tasks |-> <<>>]
    /\ user_updates = [r \in Tasks |-> 1]
    /\ started = 1
    /\ admissions = [k \in UserKeys |-> 0]

InitRegistry ==
    /\ status = [p \in Range(ProviderNames) |-> "unknown"]
    /\ error_count = [p \in Range(ProviderNames) |-> 0]
    /\ response_time = [p \in Range(ProviderNames) |-> 0]
    /\ reqModel = "gpt-4"
    /\ selected = NotCalled
    /\ NoStream
    /\ NoHealth
    /\ \E shape \in DispatchShapes, p \in select_provider(ProviderNames, "gpt-4") :
          Dispatched(shape, "gpt-4", p)

NextRegistry ==
    \/ StartHealthChecks
    \/ CycleStart
    \/ \E p \in Range(ProviderNames) : ProbeFinish(p)
    \/ GatherDone
    \/ \E r \in Tasks : ForwardComplete(r)
    \/ \E r \in Tasks : GeneratorStreamRun(r)
    \/ \E r \in Tasks : AsgiStreamRun(r)

SpecRegistry == InitRegistry /\ [][NextRegistry]_vars

\* ---------------------------------------------------------------- claims
PassesFilter(p) == status[p] = "healthy" /\ error_count[p] < ErrorCeiling

\* C1: whenever some provider is healthy with error_count < 5, the provider a
\* select_provider call returns is healthy with error_count < 5; and when
\* exactly one provider passes and all others are unhealthy, the call returns
\* that provider.
C1_SelectWithinHealthy ==
    selected # NotCalled =>
        /\ (\E p \in Range(ProviderNames) : PassesFilter(p)) =>
               /\ selected \in Range(ProviderNames)
               /\ PassesFilter(selected)
        /\ \A a \in Range(ProviderNames) :
               ( /\ PassesFilter(a)
                 /\ \A b \in Range(ProviderNames) \ {a} : status[b] = "unhealthy" )
               => selected = a

C1_Witness ==
    /\ selected = "deepseek"
    /\ status = [deepseek |-> "healthy", lingyiwanwu |-> "unhealthy", ollama |-> "unhealthy"]
    /\ error_count["deepseek"] = 4
    /\ reqModel = "yi-34b-chat"

\* C2: when no provider is healthy with error_count < 5, a select_provider
\* call draws from the full provider list and returns one of the providers
\* (any of them when nobody lists the requested model); None is returned only
\* for an empty provider list.
C2_FallbackToAll ==
    /\ ( selected # NotCalled /\ ~(\E p \in Range(ProviderNames) : PassesFilter(p)) ) =>
           /\ selected \in Range(ProviderNames)
           /\ (\A p \in Range(ProviderNames) : reqModel \notin Range(models[p]))
                  => select_provider(ProviderNames, reqModel) = Range(ProviderNames)
    /\ selected = None => ProviderNames = <<>>
    /\ select_provider(<<>>, reqModel) = {None}

C2_Witness ==
    /\ selected = "ollama"
    /\ \A p \in Range(ProviderNames) : status[p] = "unknown" /\ error_count[p] = 0
    /\ reqModel = "gpt-4"

\* C4: for an upstream that answers 200 and emits a finite sequence of
\* non-empty chunks, the finished stream of either transport has delivered
\* to its (still connected) caller exactly that chunk sequence, in order.
C4_TransportsRelayUpstreamChunks ==
    (spc = "done" /\ connected /\ CleanUpstream /\ NonEmptyChunks)
        => Content = upstream.chunks

\* C5: in both transports, when the upstream answers non-200 or the
\* connection fails before any byte arrives, the caller never receives a
\* content chunk, and the finished stream has delivered exactly one error
\* event, which carries type, message and provider.
C5_FailureBeforeContent ==
    (upstream.connect # "ok" \/ upstream.code # 200) =>
        /\ Content = <<>>
        /\ Len(ErrorEvents) <= 1
        /\ (spc = "done" /\ connected) =>
               /\ Len(ErrorEvents) = 1
               /\ {"type", "message", "provider"} \subseteq ErrorEvents[1].error.fields

C5_Witness ==
    /\ transport = "asgi"
    /\ upstream.connect = "connect_error"
    /\ spc = "done" /\ connected
    /\ Len(ErrorEvents) = 1
    /\ ErrorEvents[1].error.type = "connection_error"

\* C6: when the upstream stream completes cleanly, the finished stream of
\* either transport ends, for its connected caller, with the closing message
\* (empty body, more_body False), sent once and after every content chunk.
C6_EndMarkerOnCleanCompletion ==
    (spc = "done" /\ connected /\ CleanUpstream) =>
        /\ sent # <<>>
        /\ sent[Len(sent)] = EndMsg
        /\ \A i \in 1..(Len(sent) - 1) : sent[i].more_body

C6_Witness ==
    /\ transport = "generator"
    /\ spc = "done" /\ connected /\ CleanUpstream
    /\ upstream.chunks = <<1, 2>>
    /\ Content = <<1, 2>>
    /\ sent[Len(sent)] = EndMsg

\* C7: in both transports the client opened for a call is closed when the
\* stream has finished, and once the caller has disconnected no further read
\* of the upstream is begun.
C7_ClientReleasedAndReadsStop ==
    /\ spc = "done" => client # "open"
    /\ reads_after_disconnect = 0


\* ---- claims about the request pipeline (specification Spec)

\* The request of task r has been authorized.
Admitted(r) == user_info[r].kind # "none"

\* The handler of task r is past the reading of the body.
PastBody(r) == Admitted(r) /\ pc[r] \in {"forwarding", "streaming", "done"}

\* The authorization of task r is made in this step.
AuthStep(r) == pc[r] = "auth" /\ pc'[r] # "auth"

C8_QuotaRejectAndLazyReset ==
    [][ /\ \A r \in Tasks :
              (/\ AuthStep(r)
               /\ auth_mode = "multi_user"
               /\ req[r].key \in UserKeys
               /\ users[req[r].key].is_active)
              => LET k == req[r].key
                     u == users[k]
                 IN  /\ (u.last_request = today /\ u.requests_today = u.daily_limit)
                            => (pc'[r] = "done" /\ response'[r].code = 429)
                     /\ u.last_request # today
                            => /\ users'[k].requests_today = 0
                               /\ u.daily_limit > 0 => pc'[r] = "admitted"
                     /\ u.last_request = today
                            => users'[k].requests_today = u.requests_today
        /\ \A k \in UserKeys :
              users'[k].requests_today < users[k].requests_today
              => \E r \in Tasks : /\ AuthStep(r)
                                  /\ req[r].key = k
                                  /\ users[k].last_request # today
      ]_vars

\* A user who had used the quota of the day before is admitted with
\* requests_today back at 0.
C8_Witness ==
    \E r \in Tasks :
        /\ auth_mode = "multi_user"
        /\ pc[r] = "admitted"
        /\ req[r].key = DemoKey
        /\ users[DemoKey].total_requests = DemoDailyLimit
        /\ users[DemoKey].requests_today = 0
        /\ users[DemoKey].last_request # today

\* C9: an unknown credential is answered 401, an inactive account 403 and a
\* reached daily quota 429, three different statuses; a credential is
\* admitted exactly when it is known, its account is active and its
\* requests_today (after the reset of a new day) is below daily_limit.
C9_DistinctRejections ==
    [][ \A r \in Tasks :
          AuthStep(r) =>
            LET k == req[r].key
                known == IF auth_mode = "shared" THEN k = shared_api_key
                         ELSE k \in UserKeys
                rec == verify_api_key(k).rec
                active == rec.is_active
                used == IF rec.last_request # today THEN 0 ELSE rec.requests_today
                under == used < rec.daily_limit
            IN  /\ ~known => response'[r].code = 401
                /\ (known /\ ~active) => response'[r].code = 403
                /\ (known /\ active /\ ~under) => response'[r].code = 429
                /\ pc'[r] = "admitted" <=> (known /\ active /\ under)
                /\ pc'[r] = "admitted" => response'[r] = NoResponse
                /\ pc'[r] # "admitted" => (pc'[r] = "done" /\ ~Admitted(r)')
      ]_vars

\* A known credential of an inactive account has been rejected.
C9_Witness ==
    \E r \in Tasks :
        /\ pc[r] = "done"
        /\ response[r].code = 403
        /\ auth_mode = "multi_user"
        /\ req[r].key \in UserKeys
        /\ ~users[req[r].key].is_active

\* C10: for every admitted request the user's requests_today and
\* total_requests are each incremented exactly once, before the body is read
\* and so before any selection or forward, and stay incremented however the
\* request ends; a request not (yet) past authorization has incremented
\* nothing.
C10_CountedOncePerAdmission ==
    /\ \A r \in Tasks :
          /\ pc[r] \in {"idle", "auth", "admitted"} => user_updates[r] = 0
          /\ (pc[r] \in {"read_body", "forwarding", "streaming"}
                \/ (pc[r] = "done" /\ Admitted(r))) => user_updates[r] = 1
          /\ (pc[r] = "done" /\ ~Admitted(r)) => user_updates[r] = 0
          /\ (selections[r] # <<>> \/ attempts[r] # <<>>) => user_updates[r] = 1
          /\ user_info[r].kind = "new" =>
                /\ user_info[r].rec.requests_today = user_updates[r]
                /\ user_info[r].rec.total_requests = user_updates[r]
    /\ \A k \in UserKeys :
          /\ users[k].total_requests
               + Cardinality({r \in Tasks : /\ pc[r] = "admitted"
                                            /\ user_info[r].kind = "db"
                                            /\ user_info[r].key = k})
               = admissions[k]
          /\ users[k].requests_today <= users[k].total_requests
          /\ today = 0 => users[k].requests_today = users[k].total_requests

\* An admitted request whose forward failed has consumed one unit of quota.
C10_Witness ==
    \E r \in Tasks :
        /\ auth_mode = "multi_user"
        /\ pc[r] = "done"
        /\ response[r].code = 502
        /\ user_info[r].kind = "db"
        /\ user_updates[r] = 1
        /\ users[req[r].key].requests_today = 1
        /\ users[req[r].key].total_requests = 1
        /\ admissions[req[r].key] = 1


\* C11 (as stated): a successful authorization leaves requests_today,
\* total_requests and last_request of the user record as they were.
C11_AuthorizationLeavesCounters ==
    [][ \A r \in Tasks :
          (AuthStep(r) /\ pc'[r] = "admitted" /\ req[r].key \in UserKeys
              /\ auth_mode = "multi_user")
          => LET k == req[r].key
             IN  /\ users'[k].requests_today = users[k].requests_today
                 /\ users'[k].total_requests = users[k].total_requests
                 /\ users'[k].last_request = users[k].last_request
      ]_vars

\* C11 (amended): a successful authorization leaves total_requests and
\* last_request of the user record as they were, and requests_today too
\* unless last_request is of another date than today, in which case it sets
\* requests_today to 0; it increments nothing, and the record it returns is
\* the stored one. In shared mode the record returned is a new one with
\* both counters at 0.
C11_AuthorizationOnlyResets ==
    [][ \A r \in Tasks :
          (AuthStep(r) /\ pc'[r] = "admitted")
          => IF auth_mode = "multi_user"
             THEN LET k == req[r].key
                  IN  /\ users'[k].total_requests = users[k].total_requests
                      /\ users'[k].last_request = users[k].last_request
                      /\ users'[k].requests_today =
                            (IF users[k].last_request = today
                             THEN users[k].requests_today ELSE 0)
                      /\ user_info'[r].rec = users'[k]
                      /\ \A j \in UserKeys \ {k} : users'[j] = users[j]
             ELSE /\ users' = users
                  /\ user_info'[r].rec.requests_today = 0
                  /\ user_info'[r].rec.total_requests = 0
      ]_vars

\* A user with one request counted today is authorized again on the same
\* day, and the record is as the first request left it.
C11_Witness ==
    \E r \in Tasks :
        /\ auth_mode = "multi_user"
        /\ pc[r] = "admitted"
        /\ req[r].key = AdminKey
        /\ users[AdminKey].requests_today = 1
        /\ users[AdminKey].total_requests = 1
        /\ users[AdminKey].last_request = today
        /\ user_updates[r] = 0

\* C12: while a request stands rejected by authenticate (401, 403 or 429)
\* no step changes the statistics, the per-provider usage or any provider's
\* status, error_count or response_time, and the request has selected no
\* provider and made no upstream call.
C12_RejectionDoesNoWork ==
    [][ \A r \in Tasks :
          (response'[r].code \in {401, 403, 429} /\ started' = started)
          => /\ stats' = stats
             /\ status' = status
             /\ error_count' = error_count
             /\ response_time' = response_time
             /\ selections'[r] = <<>>
             /\ attempts'[r] = <<>>
             /\ provider'[r] = None
             /\ user_updates'[r] = 0
             /\ pc'[r] = "done"
      ]_vars

\* A request is rejected for quota after an earlier request was served: the
\* statistics hold the earlier request only.
C12_Witness ==
    \E r \in Tasks :
        /\ pc[r] = "done"
        /\ response[r].code = 429
        /\ started = 2
        /\ stats.total_requests = 1
        /\ selections[r] = <<>>
        /\ attempts[r] = <<>>


\* ---- claims about the health monitor (specification SpecHealth)

\* The probe of provider p returns in this step.
ProbeStep(p) == probe[p] = "pending" /\ probe'[p] \in {"True", "False"}

\* C13: a health probe that receives HTTP 200 sets the provider's status to
\* healthy, sets its error_count to 0 whatever it was, sets response_time to
\* the elapsed time of the probe (not to an average with the old value) and
\* sets last_check to the current time.
C13_ProbeSuccess ==
    [][ \A p \in Range(ProviderNames) :
          (ProbeStep(p) /\ probe'[p] = "True")
          => /\ status'[p] = "healthy"
             /\ error_count'[p] = 0
             /\ response_time'[p] \in ProbeTimes
             /\ last_check'[p] = now
      ]_vars

\* A provider that had failed two probes is healthy with error_count 0 after
\* a probe at a later time.
C13_Witness ==
    /\ probe["deepseek"] = "True"
    /\ status["deepseek"] = "healthy"
    /\ error_count["deepseek"] = 0
    /\ response_time["deepseek"] \in ProbeTimes
    /\ last_check["deepseek"] = MaxNow
    /\ error_count["ollama"] = MaxProbeErr

\* C14: a health probe that fails in any way (non-200, connection error,
\* timeout, other exception) sets the provider's status to unhealthy, adds
\* one to its error_count, sets last_check to the current time and returns
\* to the loop, which goes on gathering.
C14_ProbeFailure ==
    [][ \A p \in Range(ProviderNames) :
          (ProbeStep(p) /\ probe'[p] = "False")
          => /\ status'[p] = "unhealthy"
             /\ error_count'[p] = error_count[p] + 1
             /\ last_check'[p] = now
             /\ hpc' = "gathering"
             /\ health_check_task' = health_check_task
      ]_vars

\* A provider that was healthy has failed its probe at a later time.
C14_Witness ==
    /\ probe["lingyiwanwu"] = "False"
    /\ status["lingyiwanwu"] = "unhealthy"
    /\ error_count["lingyiwanwu"] = 1
    /\ response_time["lingyiwanwu"] \in ProbeTimes
    /\ last_check["lingyiwanwu"] = 1
    /\ hpc = "gathering"

\* C15: the return of the probe of one provider changes the status,
\* error_count, response_time and last_check of that provider only, and
\* when the loop goes to sleep the probe of every provider has returned in
\* the cycle, whatever the other probes returned.
C15_ProbeIsolation ==
    [][ /\ \A p \in Range(ProviderNames) :
              ProbeStep(p)
              => \A q \in Range(ProviderNames) \ {p} :
                     /\ status'[q] = status[q]
                     /\ error_count'[q] = error_count[q]
                     /\ response_time'[q] = response_time[q]
                     /\ last_check'[q] = last_check[q]
                     /\ probe'[q] = probe[q]
        /\ (hpc = "gathering" /\ hpc' # "gathering")
              => \A p \in Range(ProviderNames) : probe'[p] \in {"True", "False"}
      ]_vars

\* A cycle is over in which one probe failed and the two others succeeded.
C15_Witness ==
    /\ hpc = "sleeping"
    /\ probe = [deepseek |-> "False", lingyiwanwu |-> "True", ollama |-> "True"]
    /\ status = [deepseek |-> "unhealthy", lingyiwanwu |-> "healthy", ollama |-> "healthy"]
    /\ error_count = [deepseek |-> 1, lingyiwanwu |-> 0, ollama |-> 0]

\* C16: once the monitor is started, every provider's probe is started
\* again and again: the loop never exits, and after every cycle, one whose
\* body raised included, another cycle follows.
C16_MonitorNeverExits ==
    \A p \in Range(ProviderNames) :
        /\ (health_check_task # None) ~> (probe[p] = "pending")
        /\ (probe[p] \in {"True", "False"}) ~> (probe[p] = "pending")
        /\ (hpc = "sleeping_after_error") ~> (hpc = "gathering")

\* The loop sleeps in its except clause after a cycle whose body raised.
C16_Witness ==
    /\ hpc = "sleeping_after_error"
    /\ health_check_task # None
    /\ \A p \in Range(ProviderNames) : probe[p] = "False"

\* C17: after any number of start_health_checks calls at most one
\* health_check_loop task has been created, and exactly one after the first.
C17_SingleHealthLoop ==
    /\ loop_tasks <= 1
    /\ starts >= 1 => (loop_tasks = 1 /\ health_check_task # None)

\* start_health_checks has been called twice.
C17_Witness ==
    /\ starts = 2
    /\ loop_tasks = 1
    /\ hpc = "gathering"


\* ---- claims about the registry under probes and forwards

\* A forward of task r ends in this step, and how.
ForwardEnds(r, outcome) ==
    /\ Len(outcomes'[r]) = Len(outcomes[r]) + 1
    /\ outcomes'[r][Len(outcomes'[r])] = outcome

\* C18: a successful forward (non-streaming 200, or clean completion of
\* either streaming transport) lowers the provider's error_count by exactly
\* one unless it is 0, and leaves the other providers' counts alone; under
\* every interleaving of probes and forwards error_count is never negative.
C18_SuccessDecrementsFloorZero ==
    /\ [](\A p \in Range(ProviderNames) : error_count[p] >= 0)
    /\ [][ \A r \in Tasks :
             ForwardEnds(r, "ok")
             => /\ error_count'[provider[r]] =
                      (IF error_count[provider[r]] = 0 THEN 0
                       ELSE error_count[provider[r]] - 1)
                /\ \A q \in Range(ProviderNames) \ {provider[r]} :
                      error_count'[q] = error_count[q]
         ]_vars

\* A forward succeeded on a provider whose probe had failed: the count the
\* probe raised is back at 0 while the status is still unhealthy.
C18_Witness ==
    \E r \in Tasks :
        /\ outcomes[r] = <<"ok">>
        /\ pc[r] = "done"
        /\ status[provider[r]] = "unhealthy"
        /\ error_count[provider[r]] = 0

\* C19: a non-streaming forward that fails by an upstream non-200, a
\* connection failure or a timeout raises the provider's error_count by
\* exactly one.
C19_NonStreamingFailureCountsOnce ==
    [][ \A r \in Tasks :
          (/\ pc[r] = "forwarding"
           /\ \E o \in {"non200", "connect_error", "timeout"} : ForwardEnds(r, o))
          => error_count'[provider[r]] = error_count[provider[r]] + 1
      ]_vars

\* C20: in both streaming transports a connection error and a timeout of
\* the upstream call are recorded in the error_count of the chosen provider
\* and reach the connected caller as one error event of type
\* connection_error or timeout_error.
C20_FailuresRecordedAndTyped ==
    (/\ spc = "done"
     /\ connected
     /\ upstream.connect \in {"connect_error", "timeout"})
    => /\ error_count[selected] >= 1
       /\ Len(ErrorEvents) = 1
       /\ ErrorEvents[1].error.type =
             (IF upstream.connect = "connect_error" THEN "connection_error"
              ELSE "timeout_error")


\* ---- claims about the errors a caller gets

\* The failures of a forward the caller is to tell apart.
FailureConditions == {"non200", "connect_error", "timeout"}

\* The request of task r was forwarded without streaming and the forward
\* ended with outcome o.
NonStreamingEnded(r, o) ==
    /\ pc[r] = "done"
    /\ req[r].body.valid
    /\ ~stream_flag(req[r].endpoint, req[r].body)
    /\ outcomes[r] = <<o>>

\* C21: a failed non-streaming forward is answered with a status that tells
\* the three conditions apart (no other condition gives the same status),
\* and an upstream non-200 is answered with the upstream's own status code.
C21_NonStreamingFailuresDistinct ==
    \A r \in Tasks : \A o \in FailureConditions :
        NonStreamingEnded(r, o) =>
            /\ \A o2 \in FailureConditions \ {o} : \A c \in UpstreamCodes \ {200} :
                  response[r].code # nonstream_failure_response(o2, c).code
            /\ o = "non200" => response[r].code \in UpstreamCodes \ {200}


\* The failure of the streaming call, as the upstream behaviour gives it.
UpstreamNon200 == upstream.connect = "ok" /\ upstream.code # 200

\* C22: every error event a streaming transport emits has an error object
\* with exactly the fields type, message and provider, plus code when the
\* upstream answered non-200; and for an upstream non-200 the event is the
\* one either transport emits for that answer.
C22_UniformErrorEnvelope ==
    \A i \in 1..Len(ErrorEvents) :
        LET e == ErrorEvents[i].error IN
        /\ e.fields = {"type", "message", "provider"}
                          \cup (IF UpstreamNon200 THEN {"code"} ELSE {})
        /\ UpstreamNon200 =>
               /\ e = gen_non200_events(upstream.code)[1].error
               /\ e = asgi_non200_events(upstream.code)[1].error


\* ---- claims about the weighted draw

\* The candidate set the health filter leaves: the providers passing it, or
\* every provider when none passes.
Candidates ==
    IF \E p \in Range(ProviderNames) : PassesFilter(p)
    THEN {p \in Range(ProviderNames) : PassesFilter(p)}
    ELSE Range(ProviderNames)

PoolCandidates ==
    IF \E p \in Candidates : reqModel \in Range(models[p])
    THEN {p \in Candidates : reqModel \in Range(models[p])}
    ELSE Candidates

Count(p, pool) == Cardinality({i \in DOMAIN pool : pool[i] = p})

\* Weight factors in tenths: max(0.1, 2.0 - response_time) for every
\* response_time, and max(0.1, 1.0 - 0.1 * error_count).
LatencyFactor(p) == MaxOf(1, 20 - response_time[p])

ErrorFactor(p) == MaxOf(1, 10 - error_count[p])

\* round() of a value given in hundredths (a half goes to the even neighbour).
Round100(x) ==
    LET q == x \div 100
        r == x % 100
    IN  IF r > 50 \/ (r = 50 /\ q % 2 = 1) THEN q + 1 ELSE q

\* C24 as stated: every candidate is in the pool exactly max(1, round(w))
\* times, w = weight x latency factor x error factor, the latency factor
\* applied for every response_time including 0; the result is drawn from
\* the pool.
C24_PoolCopiesRounded ==
    selected # NotCalled =>
        \A pool \in {weighted_providers(ProviderNames, reqModel)} :
        /\ \A p \in PoolCandidates :
               Count(p, pool) =
                   MaxOf(1, Round100(weight[p] * LatencyFactor(p) * ErrorFactor(p)))
        /\ \A p \in Range(ProviderNames) \ PoolCandidates : Count(p, pool) = 0
        /\ selected \in Range(pool)

\* C24, amended: every candidate is in the pool exactly max(1, floor(w))
\* times, w = weight x latency factor x error factor, where the latency
\* factor is max(0.1, 2.0 - response_time) for a response_time above 0 and 1
\* for response_time 0; every member of the pool can be drawn and nothing
\* else.
C24_PoolCopiesTruncated ==
    selected # NotCalled =>
        \A pool \in {weighted_providers(ProviderNames, reqModel)} :
        /\ \A p \in PoolCandidates :
               Count(p, pool) =
                   MaxOf(1, (weight[p]
                             * (IF response_time[p] = 0 THEN 10 ELSE LatencyFactor(p))
                             * ErrorFactor(p)) \div 100)
        /\ \A p \in Range(ProviderNames) \ PoolCandidates : Count(p, pool) = 0
        /\ selected \in Range(pool)
        /\ select_provider(ProviderNames, reqModel) = Range(pool)

\* Weight 3, response_time 0.5 s and one error: w = 3 x 1.5 x 0.9 = 4.05.
C24_Witness ==
    /\ selected = "deepseek"
    /\ status["deepseek"] = "healthy"
    /\ response_time["deepseek"] = 5
    /\ error_count["deepseek"] = 1
    /\ Count("deepseek", weighted_providers(ProviderNames, reqModel)) = 4


\* A step that raises the error_count of p and leaves everything else in the
\* registry as it was.
RaisesErrorCount(p) ==
    /\ error_count'[p] > error_count[p]
    /\ \A q \in Range(ProviderNames) \ {p} : error_count'[q] = error_count[q]
    /\ status' = status
    /\ response_time' = response_time

\* The share of p in a pool does not grow from pool a to pool b.
ShareNotLarger(p, a, b) == Count(p, b) * Len(a) <= Count(p, a) * Len(b)

\* C25 as stated: raising the error_count of a provider never increases its
\* share of the selection pool, and the share of a provider (all weights are
\* above 0) is never zero.
C25_ShareMonotoneNeverZero ==
    [][ \A a \in {weighted_providers(ProviderNames, reqModel)} :
        \A b \in {weighted_providers(ProviderNames, reqModel)'} :
            \A p \in Range(ProviderNames) :
                /\ RaisesErrorCount(p) => ShareNotLarger(p, a, b)
                /\ Count(p, a) > 0
                /\ Count(p, b) > 0 ]_vars

\* C25, amended: raising the error_count of a provider never increases its
\* share of the selection pool, and the share of a provider is never zero
\* while it is one of the candidates the pool is built from.
C25_ShareMonotoneCandidateNeverZero ==
    [][ \A a \in {weighted_providers(ProviderNames, reqModel)} :
        \A b \in {weighted_providers(ProviderNames, reqModel)'} :
            \A p \in Range(ProviderNames) :
                /\ RaisesErrorCount(p) => ShareNotLarger(p, a, b)
                /\ p \in PoolCandidates => Count(p, a) > 0
                /\ p \in PoolCandidates' => Count(p, b) > 0 ]_vars

\* The sixth consecutive error of a provider of weight 2 (w = 0.8) that is
\* still a candidate, every provider being unhealthy.
C25_Witness ==
    /\ spc = "finally"
    /\ upstream.connect = "connect_error"
    /\ selected = "ollama"
    /\ error_count["ollama"] = 6
    /\ \A p \in Range(ProviderNames) : status[p] = "unhealthy"
    /\ "ollama" \in PoolCandidates
    /\ Count("ollama", weighted_providers(ProviderNames, reqModel)) = 1


\* Every provider healthy with the counters of a fresh registry, and a
\* requested model that no provider lists (the same affinity standing).
FreshHealthyRegistry ==
    /\ \A p \in Range(ProviderNames) :
           status[p] = "healthy" /\ error_count[p] = 0 /\ response_time[p] = 0
    /\ \A p \in Range(ProviderNames) : reqModel \notin Range(models[p])

\* C26: with weights 3, 3 and 2, all providers healthy, error_count 0 and
\* response_time 0, and a model no provider is preferred for, the pool holds
\* the providers in the proportion 3:3:2 (shares 3/8, 3/8 and 2/8), and each
\* of them can be returned.
C26_PoolProportion332 ==
    (selected # NotCalled /\ FreshHealthyRegistry) =>
        \A pool \in {weighted_providers(ProviderNames, reqModel)} :
            /\ Count("deepseek", pool) * 8 = 3 * Len(pool)
            /\ Count("lingyiwanwu", pool) * 8 = 3 * Len(pool)
            /\ Count("ollama", pool) * 8 = 2 * Len(pool)
            /\ select_provider(ProviderNames, reqModel) = Range(ProviderNames)

C26_Witness ==
    /\ FreshHealthyRegistry
    /\ reqModel = "gpt-4"
    /\ selected = "ollama"
    /\ Len(weighted_providers(ProviderNames, reqModel)) = 8


\* ---- claims about the model name sent upstream

\* The generic model names map_model_name recognizes.
GenericAliases == {"gpt-3.5-turbo", "gpt-4", "code-assistant"}

\* What the claim says map_model_name(m, p) returns.
MappedAsClaimed(m, p, out) ==
    /\ m \in GenericAliases =>
           out = IF p \in DOMAIN model_mapping[m] THEN model_mapping[m][p]
                 ELSE models[p][1]
    /\ (m \notin GenericAliases /\ m \in Range(models[p])) => out = m
    /\ (m \notin GenericAliases /\ m \notin Range(models[p])) => out = models[p][1]

\* C27: map_model_name(m, p) returns, for a recognized generic name, the
\* translation configured for p (p's first model when p has no entry);
\* otherwise m itself when m is one of p's own models; otherwise p's first
\* model; and calls with the same arguments return the same value.
C27_MapModelName ==
    \A r \in Tasks :
        \A i \in DOMAIN request_data[r] :
            /\ MappedAsClaimed(reqModel, selected, request_data[r][i])
            /\ \A j \in DOMAIN request_data[r] : request_data[r][j] = request_data[r][i]

C27_Witness ==
    \E r \in Tasks :
        /\ reqModel = "code-assistant"
        /\ selected = "ollama"
        /\ request_data[r] = <<"codegemma", "codegemma">>

\* C28: in every forwarding path the model of a request sent upstream is
\* map_model_name(request.model, provider) for the provider it is sent to,
\* never the literal "code-assistant", and the caller's request keeps the
\* model it came with.
C28_UpstreamModelMapped ==
    /\ [](\A r \in Tasks :
            /\ Len(request_data[r]) = Len(attempts[r])
            /\ \A i \in DOMAIN request_data[r] :
                  /\ request_data[r][i] = map_model_name(req[r].model, attempts[r][i])
                  /\ request_data[r][i] # "code-assistant")
    /\ [][\A r \in Tasks :
            pc[r] \in {"forwarding", "streaming"} => req'[r].model = req[r].model]_vars

C28_Witness ==
    \E r \in Tasks :
        /\ req[r].model = "code-assistant"
        /\ uses_direct_relay(r)
        /\ attempts[r] = <<"deepseek">>
        /\ request_data[r] = <<"deepseek-coder">>


\* ---- claims about the choice of transport

\* The endpoint chat_completions serves.
ChatEndpoint == "/v1/chat/completions"

C30_HealthReportsRegistry ==
    [][ health_check =>
          /\ health_get'.code = 200
          /\ health_get'.status = "healthy"
                <=> (\E p \in Range(ProviderNames) : status[p] = "healthy")
          /\ health_get'.status = "unhealthy"
                <=> (\A p \in Range(ProviderNames) : status[p] # "healthy")
          /\ \A p \in Range(ProviderNames) :
                /\ health_get'.providers[p].status = status[p]
                /\ health_get'.providers[p].response_time = response_time[p]
                /\ health_get'.providers[p].error_count = error_count[p]
                /\ health_get'.providers[p].last_check = last_check[p] ]_vars

\* A GET /health without a credential, made after the probes of a cycle
\* found one provider healthy and two not, has reported what they wrote.
C30_Witness ==
    /\ health_get.credentials = None
    /\ health_get.code = 200
    /\ health_get.status = "healthy"
    /\ health_get.providers["ollama"] =
           [status |-> "healthy", response_time |-> 3, error_count |-> 0,
            last_check |-> 1]
    /\ health_get.providers["deepseek"].status = "unhealthy"
    /\ health_get.providers["lingyiwanwu"].status = "unhealthy"
    /\ health_get.providers["deepseek"].error_count = 1


\* ---- claims about the errors of the handlers themselves

\* The body task r read did not make a ChatRequest: messages is missing or is
\* not a list of role/content pairs.
MalformedBody(r) ==
    /\ PastBody(r)
    /\ ~req[r].body.valid
    /\ req[r].body.why = "no_messages"

\* C31: an authorized request whose body is malformed is answered with
\* status 400 or 422, and is not forwarded.
C31_MalformedBodyClientError ==
    \A r \in Tasks :
        MalformedBody(r) =>
            /\ response[r].code \in {400, 422}
            /\ attempts[r] = <<>>


\* The handler of task r raised an exception that is not an authorization,
\* selection or provider failure: reading or validating the body failed.
UnexpectedException(r) == PastBody(r) /\ ~req[r].body.valid

\* The internal-error response that carries nothing of the exception.
GenericInternalError == [code |-> 500, detail |-> "Internal server error"]

\* C32: on either endpoint an unexpected exception is answered with the
\* generic internal-error response, whose body has no text of the exception.
C32_UnexpectedExceptionGeneric ==
    \A r \in Tasks :
        UnexpectedException(r) => response[r] = GenericInternalError


\* ---- claims about concurrent updates of the registry and the statistics

\* The counters of the Router Statistics.
StatsCounters == {"total_requests", "successful_requests", "failed_requests"}

MidStreamFailure ==
    /\ upstream.connect = "ok" /\ upstream.code = 200
    /\ upstream.tail \in {"timeout", "error"}
    /\ pos = Len(upstream.chunks)
    /\ spc \in {"finally", "exhausted", "done"}
    /\ connected

\* What the transport read from the upstream, chunk by chunk.
ReadChunk(i) ==
    IF transport = "generator"
    THEN aiter_raw(upstream.encoding, upstream.chunks[i])
    ELSE aiter_bytes(upstream.encoding, upstream.chunks[i])

\* The non-empty chunks read so far, in upstream order.
RelayedChunks ==
    SelectSeq([i \in 1..pos |-> ReadChunk(i)], LAMBDA c : c # 0)

IsErrorEvent(m) == m.error # NoError

\* C34: in each transport, when the upstream fails in mid-stream the caller
\* has got the chunks relayed before the failure, in upstream order, and
\* then exactly one error event; after an error event no content chunk and
\* no second error event is sent; and what was sent is never taken back.
C34_MidStreamFailure ==
    /\ [](MidStreamFailure =>
              /\ Content = RelayedChunks
              /\ Len(ErrorEvents) = 1)
    /\ [](\A i, j \in DOMAIN sent :
              (i < j /\ IsErrorEvent(sent[i])) =>
                  /\ sent[j].body = 0
                  /\ ~IsErrorEvent(sent[j]))
    /\ [][Len(sent') >= Len(sent) /\ SubSeq(sent', 1, Len(sent)) = sent]_vars

C34_Witness ==
    /\ transport = "asgi"
    /\ MidStreamFailure
    /\ upstream.tail = "timeout"
    /\ upstream.chunks = <<1, 2>>
    /\ Content = <<1, 2>>
    /\ Len(ErrorEvents) = 1
    /\ sent[Len(sent)].error.type = "timeout_error"


\* ---- claims about the Router Statistics

\* C35: in every reachable state successful_requests + failed_requests is
\* at most total_requests, a completed request being counted once, in
\* exactly one of the two.
C35_CountedOnceInOneCounter ==
    stats.successful_requests + stats.failed_requests <= stats.total_requests


\* ---- claims about the quota under concurrent requests

\* The requests that passed the quota check of user k and have not yet
\* been counted.
PassedUncounted(k) ==
    {r \in QuotaTasks : /\ pc[r] = "admitted"
                        /\ user_info[r].kind = "db"
                        /\ user_info[r].key = k}

\* C36: in multi_user mode, under every interleaving of two requests with
\* the same credential, requests_today never exceeds daily_limit, the
\* requests admitted for a user within the day never exceed daily_limit,
\* and no two requests pass the quota check against the same last unit:
\* the requests counted and those that passed the check and are not counted
\* yet are together at most daily_limit.
C36_QuotaNeverExceeded ==
    \A k \in UserKeys :
        /\ users[k].requests_today <= users[k].daily_limit
        /\ users[k].requests_today + Cardinality(PassedUncounted(k))
               <= users[k].daily_limit
        /\ today = 0 => admissions[k] <= users[k].daily_limit

\* Two requests with the demo user's key were in flight together: one took
\* the last unit, the other was rejected with 429.
C36_Witness ==
    \E r, q \in QuotaTasks :
        /\ r # q
        /\ req[r].key = DemoKey /\ req[q].key = DemoKey
        /\ pc[r] = "read_body"
        /\ pc[q] = "done" /\ response[q].code = 429
        /\ users[DemoKey].requests_today = DemoDailyLimit
        /\ admissions[DemoKey] = 1
        /\ today = 0


\* ---- claims about what a forward leaves alone

\* A forward of some task ends in this step.
SomeForwardEnds ==
    \E r \in Tasks : \E o \in ForwardOutcomes \cup StreamOutcomes : ForwardEnds(r, o)

\* C37: no forward, of any of the three kinds and however it ends, changes
\* the status or the last_check of a provider; only a probe of the provider
\* changes them, and an unhealthy provider stays unhealthy until a probe of
\* it returns 200, whatever forwards through it succeed.
C37_OnlyProbesChangeStatus ==
    [][ /\ SomeForwardEnds => (status' = status /\ last_check' = last_check)
        /\ \A p \in Range(ProviderNames) :
              /\ (status'[p] # status[p] \/ last_check'[p] # last_check[p])
                     => ProbeStep(p)
              /\ (status[p] = "unhealthy" /\ status'[p] # "unhealthy")
                     => (ProbeStep(p) /\ probe'[p] = "True")
      ]_vars

\* A relay through a provider completed cleanly after the provider's probe
\* had failed: the provider is still unhealthy.
C37_Witness ==
    \E r \in Tasks :
        /\ pc[r] = "done"
        /\ req[r].endpoint = AsgiEndpoint
        /\ outcomes[r] = <<"ok">>
        /\ probe[provider[r]] = "False"
        /\ status[provider[r]] = "unhealthy"


\* ---- claims about the recovery of a provider

\* C38: if from some point on every probe of a provider returns 200, then,
\* the health loop being scheduled fairly, the provider is eventually
\* healthy; and right after each probe that returns 200 its status is
\* healthy and its error_count 0, so that it passes the selector's health
\* filter, however high the count had grown.
C38_ProbesRecoverProvider ==
    /\ \A p \in Range(ProviderNames) :
          (<>[][ProbeStep(p) => probe'[p] = "True"]_vars)
              => <>(status[p] = "healthy")
    /\ [][ \A p \in Range(ProviderNames) :
              (ProbeStep(p) /\ probe'[p] = "True")
                  => /\ status'[p] = "healthy"
                     /\ error_count'[p] = 0
                     /\ PassesFilter(p)'
         ]_vars

\* One provider has recovered by a probe that returned 200 while another,
\* with an error_count above the ceiling, still awaits its probe.
C38_Witness ==
    \E p, q \in Range(ProviderNames) :
        /\ probe[p] = "True" /\ PassesFilter(p)
        /\ probe[q] = "pending"
        /\ status[q] = "unhealthy" /\ error_count[q] > ErrorCeiling


\* ---- claims about the two streaming transports as one relay

\* The streaming call meets an outcome of its upstream in this step, for a
\* caller that stays connected: the connection is made or fails, or the
\* body ends.
MeetsConnection == spc = "connecting" /\ spc' # "connecting" /\ connected /\ connected'
MeetsBodyEnd ==
    /\ spc = "reading" /\ spc' = "finally"
    /\ pos = Len(upstream.chunks)
    /\ connected /\ connected'

\* The change of the chosen provider's live state that belongs to an
\* upstream outcome, whichever transport relays: a failure raises
\* error_count by one, a clean completion lowers it by one (not below 0),
\* and a connection that is made enters its time into response_time.
OutcomeChange ==
    /\ MeetsConnection =>
          IF upstream.connect # "ok"
          THEN /\ error_count'[selected] = error_count[selected] + 1
               /\ response_time'[selected] = response_time[selected]
          ELSE /\ error_count'[selected] = error_count[selected]
               /\ \E t \in ConnTimes :
                     response_time'[selected] = smoothed(response_time[selected], t)
    /\ MeetsBodyEnd =>
          /\ response_time'[selected] = response_time[selected]
          /\ error_count'[selected] =
                IF upstream.tail = "eof" THEN MaxOf(0, error_count[selected] - 1)
                ELSE error_count[selected] + 1

\* C39: for the same upstream outcome the buffered-generator transport and
\* the direct-relay transport apply the same change to the error_count and
\* the response_time of the chosen provider.
C39_TransportsSameProviderChange == [][OutcomeChange]_vars


\* ---- claims about the model a provider is sent

\* C40: for each of the three providers and every requested model name (a
\* generic name, a model of any provider, an unknown name), what
\* map_model_name returns, in the router and in the relay, is one of the
\* provider's own models.
C40_MappedModelIsOwn ==
    \A r \in Tasks :
        \A i \in DOMAIN request_data[r] :
            request_data[r][i] \in Range(models[selected])

\* A model of another provider was requested of ollama, by the router's
\* function and by the relay's: both return ollama's first model.
C40_Witness ==
    \E r \in Tasks :
        /\ reqModel = "deepseek-coder"
        /\ selected = "ollama"
        /\ request_data[r] = <<"llama3.2", "llama3.2">>

====
